---- MODULE Spec2Model ----
(***************************************************************************)
(* A model of the voxel pipeline of PostmortemMRIConvert.py.               *)
(*                                                                         *)
(* A grid is a function from index triples <<ax, sag, cor>> (0-based, as   *)
(* in the Python lists) to integer intensities.  Physical lengths (mm) are *)
(* kept in tenths of a millimetre so that the float divisions of the code  *)
(* are exact integer comparisons.  The grid returned by remove_rind holds  *)
(* floats that are multiples of 0.2; it is kept in fifths of an intensity  *)
(* unit (Fifth); img_unit is the number of model units that make one       *)
(* intensity unit of img_data.  The double-precision rounding of           *)
(* smart_voxel_flip is modelled (FloatShort); elsewhere floats are exact.  *)
(***************************************************************************)
EXTENDS Integers, Sequences, FiniteSets, TLC

VARIABLES
    pc,              \* position of the program
    dims,            \* <<len(img_data), len(img_data[0]), len(img_data[0][0])>>
    img_zoom,        \* voxel size per axis, tenths of a mm
    wm_min, wm_max, gm_min, gm_max,   \* the module-level band bounds
    rind_cutoff,     \* configuration value handed to remove_rind
    img_data,        \* the grid
    img_mask,        \* the mask grid
    pre_flip,        \* snapshot taken before smart_voxel_flip
    img_chg,         \* remove_rind's output grid, in fifths
    outer_rind_list, \* remove_rind's list of unprotected rind voxels
    cursor,          \* loop index of the running loop
    flags,           \* the enable flags of the run
    applied,         \* ghost: the stage calls made so far, with the bounds passed
    swaps,           \* ghost: how often the band bounds were swapped
    in0,             \* ghost: the grid handed to the running stage
    mask0,           \* ghost: the mask handed to remove_rind
    img_unit         \* img_data holds img_unit times the intensities

vars == <<pc, dims, img_zoom, wm_min, wm_max, gm_min, gm_max, rind_cutoff,
          img_data, img_mask, pre_flip, img_chg, outer_rind_list, cursor,
          flags, applied, swaps, in0, mask0, img_unit>>

driverVars == <<flags, applied, swaps, img_unit>>

\* the record of a stage call: the band bounds the call is made with
Call(stage) == [stage |-> stage, bands |-> <<wm_min, wm_max, gm_min, gm_max>>,
                swaps |-> swaps]

(***************************************************************************)
(* Configuration constants of the source.                                  *)
(***************************************************************************)
background == 0
mask_set == 10000
cfg_wm_max == 1700
cfg_wm_min == 500
cfg_gm_max == 3000
cfg_gm_min == 1700
norm_intens == 1785
cfg_rind_cutoff == 10
\* lengths in tenths of a mm
rind_thickness == 7
rind_explore == 13
mask_dist == 20
blur_range == 25
\* the output of remove_rind is kept in units of 1/Fifth (0.40 = 2/5)
Fifth == 5

(***************************************************************************)
(* Bounds of the model.                                                    *)
(***************************************************************************)
MaxAx == 1
MaxSag == 2
MaxCor == 3

(***************************************************************************)
(* Python helpers.                                                         *)
(***************************************************************************)
\* int(x) of a float x = n/d with d > 0: truncation toward zero
Trunc(n, d) == IF n >= 0 THEN n \div d ELSE -((-n) \div d)

\* Python 2 integer division n / d (floor), d # 0
PyFloorDiv(n, d) == IF d > 0 THEN n \div d ELSE (-n) \div (-d)

\* list[i] succeeds for -len <= i < len; a negative i counts from the end
IndexOk(i, n) == i >= -n /\ i < n
PyIndex(i, n) == IF i < 0 THEN i + n ELSE i

Pos(d) == (0 .. d[1] - 1) \X (0 .. d[2] - 1) \X (0 .. d[3] - 1)

\* img[ax][sag][cor] does not raise
LookupOk(d, idx) ==
    IndexOk(idx[1], d[1]) /\ IndexOk(idx[2], d[2]) /\ IndexOk(idx[3], d[3])

\* the value of img[ax][sag][cor] when it does not raise
Lookup(img, d, idx) ==
    img[<<PyIndex(idx[1], d[1]), PyIndex(idx[2], d[2]), PyIndex(idx[3], d[3])>>]

\* the index triples of three nested range(i - r, i + r + 1) loops
Box(p, r) ==
    (p[1] - r[1] .. p[1] + r[1]) \X (p[2] - r[2] .. p[2] + r[2])
        \X (p[3] - r[3] .. p[3] + r[3])

\* the sum of f[x] over the domain of f
RECURSIVE SumFn(_)
SumFn(f) == IF DOMAIN f = {} THEN 0
            ELSE LET x == CHOOSE y \in DOMAIN f : TRUE
                 IN  f[x] + SumFn([y \in DOMAIN f \ {x} |-> f[y]])

\* sum of Lookup over a set of index triples that do not raise
SumLookup(img, d, hits) ==
    LET vals == {Lookup(img, d, i) : i \in hits}
    IN  SumFn([v \in vals |-> v * Cardinality({i \in hits : Lookup(img, d, i) = v})])

\* row-major order of the three nested enumerate loops
PosAt(d, k) == <<k \div (d[2] * d[3]), (k \div d[3]) % d[2], k % d[3]>>
NumPos(d) == d[1] * d[2] * d[3]

make_copy(img) == [p \in DOMAIN img |-> img[p]]

(***************************************************************************)
(* remove_rind and its helpers.                                            *)
(***************************************************************************)
bound_check(img, d, p, r_dist) ==
    Cardinality({i \in Box(p, r_dist) :
                    LookupOk(d, i) /\ Lookup(img, d, i) = background})

\* the index triples rind_vox_calc adds up
RindHits(img, mask, d, p, r_blur) ==
    {i \in Box(p, r_blur) :
        /\ LookupOk(d, i)
        /\ \/ Lookup(img, d, i) > gm_min /\ mask[p] = mask_set
           \/ gm_max > Lookup(img, d, i) /\ Lookup(img, d, i) > gm_min}

\* rind_vox_calc returns None (modelled as 0, which the caller tests the
\* same way) or int(float(voxel_tot) / float(voxel_add))
rind_vox_calc(img, mask, d, p, r_blur) ==
    LET hits == RindHits(img, mask, d, p, r_blur)
        voxel_tot == SumLookup(img, d, hits)
    IN  IF voxel_tot # 0 THEN Trunc(voxel_tot, Cardinality(hits)) ELSE 0

r_dist == <<(rind_thickness + rind_explore) \div img_zoom[1],
            (rind_thickness + rind_explore) \div img_zoom[2],
            (rind_thickness + rind_explore) \div img_zoom[3]>>

r_blur == <<blur_range \div img_zoom[1], blur_range \div img_zoom[2],
            blur_range \div img_zoom[3]>>

\* sag_row[cor_ind] > (wm_min * .90)
NearWhite(v) == 10 * v > 9 * wm_min

\* the value remove_rind writes for a rind voxel in its first loop, in fifths
RindReplacement(img, mask, d, p) ==
    LET voxel_val == rind_vox_calc(img, mask, d, p, r_blur)
    IN  IF voxel_val # 0 THEN Fifth * voxel_val
        ELSE Fifth * gm_min + (gm_max - gm_min)   \* gm_min + (gm_max - gm_min) * .20

\* mutant: the boundary-load test is dropped
IsRind_noload(img, d, p) == NearWhite(img[p])

IsRind(img, d, p) ==
    NearWhite(img[p]) /\ bound_check(img, d, p, r_dist) >= rind_cutoff

\* remove_rind is entered: img_chg = make_copy(img_data), the radii are
\* computed (r_dist, r_blur) and outer_rind_list = []
RindEnter ==
    /\ pc = "rind_call"
    /\ pc' = "rind_scan"
    /\ img_chg' = [p \in DOMAIN img_data |-> Fifth * make_copy(img_data)[p]]
    /\ outer_rind_list' = <<>>
    /\ cursor' = 0
    /\ in0' = img_data
    /\ mask0' = img_mask
    /\ applied' = Append(applied, Call("remove_rind"))
    /\ UNCHANGED <<flags, swaps, img_unit, dims, img_zoom, wm_min, wm_max, gm_min,
                   gm_max, rind_cutoff, img_data, img_mask, pre_flip>>

\* mutant: the first loop reads the grid it is writing
RindSource_inplace == [p \in DOMAIN img_chg |-> img_chg[p] \div Fifth]

\* the grid the first loop reads
RindSource == img_data

\* one iteration of the first loop of remove_rind
RindVisit ==
    /\ pc = "rind_scan"
    /\ cursor < NumPos(dims)
    /\ LET p == PosAt(dims, cursor)
       IN  IF IsRind(RindSource, dims, p)
           THEN /\ img_chg' = [img_chg EXCEPT
                                 ![p] = RindReplacement(RindSource, img_mask, dims, p)]
                /\ outer_rind_list' =
                       IF img_mask[p] # mask_set
                       THEN Append(outer_rind_list, p) ELSE outer_rind_list
           ELSE UNCHANGED <<img_chg, outer_rind_list>>
    /\ cursor' = cursor + 1
    /\ UNCHANGED <<driverVars, pc, dims, img_zoom, wm_min, wm_max, gm_min, gm_max,
                   rind_cutoff, img_data, img_mask, pre_flip, in0, mask0>>

\* the first loop is exhausted: the cosmetic loop starts
RindScanEnd ==
    /\ pc = "rind_scan"
    /\ cursor = NumPos(dims)
    /\ pc' = "rind_cosmetic"
    /\ cursor' = 0
    /\ UNCHANGED <<driverVars, dims, img_zoom, wm_min, wm_max, gm_min, gm_max, rind_cutoff,
                   img_data, img_mask, pre_flip, img_chg, outer_rind_list,
                   in0, mask0>>

\* index triples of the cosmetic loop whose pre_flip value is above background
CosmeticHits(pre, d, p) ==
    {i \in Box(p, r_blur) : LookupOk(d, i) /\ Lookup(pre, d, i) > background}

\* voxel_diff of the cosmetic loop
CosmeticDiff(pre, d, p) ==
    LET hits == CosmeticHits(pre, d, p)
    IN  SumLookup(pre, d, hits) - Cardinality(hits) * pre[p]

\* one iteration of the cosmetic loop; voxel_diff / voxel_add raises
\* ZeroDivisionError when voxel_add - 1 = 0
RindCosmetic ==
    /\ pc = "rind_cosmetic"
    /\ cursor < Len(outer_rind_list)
    /\ LET p == outer_rind_list[cursor + 1]
           voxel_diff == CosmeticDiff(pre_flip, dims, p)
           voxel_add == Cardinality(CosmeticHits(pre_flip, dims, p)) - 1
       IN  IF voxel_add = 0
           THEN /\ pc' = "rind_error"
                /\ UNCHANGED <<img_chg, cursor>>
           ELSE /\ img_chg' = [img_chg EXCEPT
                                 ![p] = @ - 2 * PyFloorDiv(voxel_diff, voxel_add)]
                /\ cursor' = cursor + 1
                /\ pc' = pc
    /\ UNCHANGED <<driverVars, dims, img_zoom, wm_min, wm_max, gm_min, gm_max, rind_cutoff,
                   img_data, img_mask, pre_flip, outer_rind_list, in0, mask0>>

\* return img_chg
RindReturn ==
    /\ pc = "rind_cosmetic"
    /\ cursor = Len(outer_rind_list)
    /\ pc' = "rind_done"
    /\ UNCHANGED <<driverVars, dims, img_zoom, wm_min, wm_max, gm_min, gm_max, rind_cutoff,
                   img_data, img_mask, pre_flip, img_chg, outer_rind_list,
                   cursor, in0, mask0>>

(***************************************************************************)
(* image_normalization and find_peak_diff.                                 *)
(***************************************************************************)
bin_size == 5
bin_max == 10000

\* the bin find_peak_diff counts a voxel in: int(float(voxel) / bin_size - bin_min)
BinOf(v) == Trunc(v, bin_size)

\* bin_list[b] after the counting loop over img_raw, the voxels > background;
\* an index past the end of bin_list raises and is skipped
BinCount(img, b) ==
    Cardinality({p \in DOMAIN img : img[p] > background /\ BinOf(img[p]) = b})

\* the bins the mode loop looks at, range(5, bin_max, bin_size), that hold a voxel
CountedBins(img) ==
    {b \in {BinOf(img[p]) : p \in {q \in DOMAIN img : img[q] > background}} :
        b >= 1 /\ b < bin_max \div bin_size}

\* max_bin_loc: the first bin of the loop with the highest count, 0 if the
\* loop finds no count above 0
max_bin_loc(img) ==
    IF CountedBins(img) = {} THEN 0
    ELSE LET top == {b \in CountedBins(img) :
                        \A c \in CountedBins(img) : BinCount(img, c) <= BinCount(img, b)}
         IN  bin_size * (CHOOSE b \in top : \A c \in top : b <= c)

find_peak_diff(img) == max_bin_loc(img) - norm_intens

\* mutant: the difference is added instead of subtracted
ShiftVoxel_add(v, peak_diff) == IF v > 0 THEN v + peak_diff ELSE v

\* the adjustment of one voxel
ShiftVoxel(v, peak_diff) == IF v > 0 THEN v - peak_diff ELSE v

image_normalization(img) ==
    [p \in DOMAIN img |-> ShiftVoxel(img[p], find_peak_diff(img))]

(***************************************************************************)
(* smart_voxel_flip.  The float expressions are evaluated exactly.         *)
(***************************************************************************)
\* mutant: the white-matter ramp is not reversed
FlipVoxel_noreverse(v, wmn, wmx, gmn, gmx) ==
    IF v >= wmn /\ v < wmx
    THEN Trunc(gmn * (wmx - wmn) + (gmx - gmn) * (v - wmn), wmx - wmn)
    ELSE IF v >= gmn /\ v < gmx
    THEN Trunc(wmx * (gmx - gmn) - (wmx - wmn) * (v - gmn), gmx - gmn)
    ELSE background

\* The code evaluates the two expressions in double precision: the quotient,
\* the product and the sum are each rounded.  FloatShort lists the arguments
\* <<wm_min, wm_max, gm_min, gm_max, voxel>>, among the bands and voxels of
\* SpecFlip, for which the rounded value lies just below an integer that the
\* exact value reaches, so that int() gives one less.
FloatShort ==
    { <<500, 1700, 1700, 3000, 2584>>, <<500, 1700, 1700, 3000, 2753>>,
      <<300, 1700, 1700, 3000, 2415>>, <<300, 1700, 1700, 3000, 2428>>,
      <<300, 1700, 1700, 3000, 2584>> }

FloatLoss(v, wmn, wmx, gmn, gmx) ==
    IF <<wmn, wmx, gmn, gmx, v>> \in FloatShort THEN 1 ELSE 0

\* mutant: a voxel outside both bands keeps its value
FlipVoxel_keep(v, wmn, wmx, gmn, gmx) ==
    IF v >= wmn /\ v < wmx
    THEN Trunc(gmn * (wmx - wmn) + (gmx - gmn) * (wmx - v), wmx - wmn)
    ELSE IF v >= gmn /\ v < gmx
    THEN Trunc(wmx * (gmx - gmn) - (wmx - wmn) * (v - gmn), gmx - gmn)
    ELSE v

\* the value smart_voxel_flip gives a voxel
\* mutant: the quotient is rounded to the nearest integer
FlipVoxel_nearest(v, wmn, wmx, gmn, gmx) ==
    IF v >= wmn /\ v < wmx
    THEN (2 * (gmn * (wmx - wmn) + (gmx - gmn) * (wmx - v)) + (wmx - wmn))
            \div (2 * (wmx - wmn))
    ELSE IF v >= gmn /\ v < gmx
    THEN (2 * (wmx * (gmx - gmn) - (wmx - wmn) * (v - gmn)) + (gmx - gmn))
            \div (2 * (gmx - gmn))
    ELSE background

FlipVoxel(v, wmn, wmx, gmn, gmx) ==
    IF v >= wmn /\ v < wmx
    THEN Trunc(gmn * (wmx - wmn) + (gmx - gmn) * (wmx - v), wmx - wmn)
         - FloatLoss(v, wmn, wmx, gmn, gmx)
    ELSE IF v >= gmn /\ v < gmx
    THEN Trunc(wmx * (gmx - gmn) - (wmx - wmn) * (v - gmn), gmx - gmn)
         - FloatLoss(v, wmn, wmx, gmn, gmx)
    ELSE background

smart_voxel_flip(img, wmn, wmx, gmn, gmx) ==
    [p \in DOMAIN img |-> FlipVoxel(img[p], wmn, wmx, gmn, gmx)]

(***************************************************************************)
(* clean_bg and its helpers.  Both passes write the grid they scan.        *)
(***************************************************************************)
search_dist == 5
inclusion_req == 3

\* isolation_check: inclusion_count is reset at the top of every iteration of
\* the search_loc loop, so the value returned is the count of the last
\* iteration, search_loc = search_dist + 1; a probe is made only while the
\* count is below inclusion_req.  sdist and req are the search_dist and
\* inclusion_req arguments
isolation_check_at_dist(img, d, p, wmn, sdist, req) ==
    LET s == sdist
        probes == {<<p[1] + s, p[2], p[3]>>, <<p[1], p[2] + s, p[3]>>,
                   <<p[1], p[2], p[3] + s>>}
        n == Cardinality({i \in probes : LookupOk(d, i) /\ Lookup(img, d, i) > wmn})
    IN  IF req <= 0 THEN 0
        ELSE IF n > req THEN req ELSE n

\* mutant: the probes look back, at offset -(sdist + 1), and count voxels
\* above background
isolation_check_back(img, d, p, wmn, sdist, req) ==
    LET s == sdist + 1
        probes == {<<p[1] - s, p[2], p[3]>>, <<p[1], p[2] - s, p[3]>>,
                   <<p[1], p[2], p[3] - s>>}
        n == Cardinality({i \in probes : LookupOk(d, i) /\ Lookup(img, d, i) > background})
    IN  IF req <= 0 THEN 0
        ELSE IF n > req THEN req ELSE n

isolation_check(img, d, p, wmn, sdist, req) ==
    LET s == sdist + 1
        probes == {<<p[1] + s, p[2], p[3]>>, <<p[1], p[2] + s, p[3]>>,
                   <<p[1], p[2], p[3] + s>>}
        n == Cardinality({i \in probes : LookupOk(d, i) /\ Lookup(img, d, i) > wmn})
    IN  IF req <= 0 THEN 0
        ELSE IF n > req THEN req ELSE n

iso_px_check(img, d, p) ==
    Cardinality({i \in Box(p, <<1, 1, 1>>) :
                    LookupOk(d, i) /\ Lookup(img, d, i) = background})

\* the first loop of clean_bg from voxel number k on
RECURSIVE CleanPass1(_, _, _, _, _, _)
CleanPass1(img, d, wmn, sdist, req, k) ==
    IF k >= NumPos(d) THEN img
    ELSE LET q == PosAt(d, k)
         IN  IF /\ wmn > img[q]
                /\ img[q] > background
                /\ isolation_check(img, d, q, wmn, sdist, req) < req
             THEN CleanPass1([img EXCEPT ![q] = background], d, wmn, sdist, req, k + 1)
             ELSE CleanPass1(img, d, wmn, sdist, req, k + 1)

\* the second loop of clean_bg from voxel number k on
RECURSIVE CleanPass2(_, _, _)
CleanPass2(img, d, k) ==
    IF k >= NumPos(d) THEN img
    ELSE LET q == PosAt(d, k)
         IN  IF img[q] > background /\ iso_px_check(img, d, q) >= 26
             THEN CleanPass2([img EXCEPT ![q] = background], d, k + 1)
             ELSE CleanPass2(img, d, k + 1)

clean_bg(img, d, wmn, sdist, req) ==
    CleanPass2(CleanPass1(img, d, wmn, sdist, req, 0), d, 0)

(***************************************************************************)
(* slice_normalization and intensity_norm_calc.                            *)
(***************************************************************************)
slice_list == <<0, 1, 3>>
cfg_norm_intens_pt == 200

\* cor_list of coronal section c: the positions whose voxel is above wm_min
CorList(img, d, c, wmn) == {q \in Pos(d) : q[3] = c /\ img[q] > wmn}

\* cor_list and len(cor_list) > norm_intens_pt
Ranked(img, d, c, wmn, npt) ==
    CorList(img, d, c, wmn) # {} /\ Cardinality(CorList(img, d, c, wmn)) > npt

\* cor_list[-(norm_intens_pt)] of the sorted list: the npt-th largest value,
\* and with npt = 0 the element of index 0, the smallest
RankedValue(img, S, npt) ==
    IF npt = 0
    THEN CHOOSE x \in {img[q] : q \in S} : \A q \in S : x <= img[q]
    ELSE CHOOSE x \in {img[q] : q \in S} :
            /\ Cardinality({q \in S : img[q] > x}) < npt
            /\ Cardinality({q \in S : img[q] >= x}) >= npt

\* max_intensity of section c
max_intensity(img, d, c, wmn, gmx, npt) ==
    IF Ranked(img, d, c, wmn, npt)
    THEN RankedValue(img, CorList(img, d, c, wmn), npt) ELSE gmx

all_intensity_list(img, d, wmn, gmx, npt) ==
    [i \in 1 .. d[3] |-> max_intensity(img, d, i - 1, wmn, gmx, npt)]

\* the sections that append to rep_intensity_list
RankedSections(img, d, wmn, npt) ==
    {c \in 0 .. d[3] - 1 : Ranked(img, d, c, wmn, npt)}

\* rep_intensity_list[len(rep_intensity_list) / 2], for a non-empty list
avg_high_intensity(img, d, wmn, gmx, npt) ==
    LET R == RankedSections(img, d, wmn, npt)
        c == CHOOSE x \in R :
                Cardinality({y \in R : y < x}) = Cardinality(R) \div 2
    IN  max_intensity(img, d, c, wmn, gmx, npt)

\* intensity_norm_calc: the section itself, then every offset of
\* range(-slice_dist, slice_dist + 1) whose index does not raise and whose
\* entry is below gm_max
intensity_norm_calc(intensity_list, cor_loc, slice_dist, gmx) ==
    LET n == Len(intensity_list)
        hits == {o \in (-slice_dist) .. slice_dist :
                    /\ IndexOk(cor_loc + o, n)
                    /\ intensity_list[PyIndex(cor_loc + o, n) + 1] < gmx}
        intensity_sum == intensity_list[cor_loc + 1]
            + SumFn([o \in hits |-> intensity_list[PyIndex(cor_loc + o, n) + 1]])
    IN  PyFloorDiv(intensity_sum, 1 + Cardinality(hits))

\* slice_normalization raises: IndexError on an empty rep_intensity_list,
\* ZeroDivisionError on a section average of 0
SliceNormRaises(img, d, slice_dist, wmn, gmx, npt) ==
    \/ RankedSections(img, d, wmn, npt) = {}
    \/ \E c \in 0 .. d[3] - 1 :
          intensity_norm_calc(all_intensity_list(img, d, wmn, gmx, npt),
                              c, slice_dist, gmx) = 0

slice_normalization_inverse(img, d, slice_dist, wmn, gmx, npt) ==
    LET all == all_intensity_list(img, d, wmn, gmx, npt)
        high == avg_high_intensity(img, d, wmn, gmx, npt)
    IN  [q \in Pos(d) |->
            Trunc(img[q] * intensity_norm_calc(all, q[3], slice_dist, gmx), high)]

slice_normalization(img, d, slice_dist, wmn, gmx, npt) ==
    LET all == all_intensity_list(img, d, wmn, gmx, npt)
        high == avg_high_intensity(img, d, wmn, gmx, npt)
    IN  [q \in Pos(d) |->
            Trunc(img[q] * high, intensity_norm_calc(all, q[3], slice_dist, gmx))]

(***************************************************************************)
(* bright_image, force_mask and pixel_cleanup.                             *)
(***************************************************************************)
\* 1 + bright_pct = BrightNum / BrightDen
BrightNum == 3
BrightDen == 2
cleanup_reps == 5

\* the grid bright_image returns, in units of 1 / (BrightDen * unit)
bright_image(img) == [q \in DOMAIN img |-> BrightNum * img[q]]

\* mutant: the two levels are exchanged
force_mask_swapped(img, unit, wmn, wmx, gmn) ==
    [q \in DOMAIN img |->
        IF img[q] > unit * wmn THEN gmn
        ELSE IF img[q] > unit * background THEN wmx
        ELSE background]

\* force_mask on a grid held in units of 1 / unit; the result is in units of 1
force_mask(img, unit, wmn, wmx, gmn) ==
    [q \in DOMAIN img |->
        IF img[q] > unit * wmn THEN wmx
        ELSE IF img[q] > unit * background THEN gmn
        ELSE background]

\* blur_ax, blur_sag, blur_cor of pixel_cleanup
blur_dist(zoom) ==
    <<Trunc(blur_range, 2 * zoom[1]), Trunc(blur_range, 2 * zoom[2]),
      Trunc(blur_range, zoom[3])>>

\* pixel_cleanup adds up img_data[ax_loc][sag_loc][cor_loc] over the box of
\* every voxel above background, outside any try: an index past the end
\* raises IndexError.  The sums are not used and the grid is returned as is.
PixelCleanupRaises(img, d, zoom) ==
    \E q \in Pos(d) :
        img[q] > background /\ \E i \in Box(q, blur_dist(zoom)) : ~LookupOk(d, i)

pixel_cleanup(img) == img

(***************************************************************************)
(* The mask builder: row_search and the three passes.                      *)
(* A row is a sequence; element i holds the voxel of row index i - 1.      *)
(* start_mask and stop_mask are integers, with 0 standing for both False   *)
(* and 0, which Python's truth tests and comparisons do not tell apart.    *)
(***************************************************************************)
Reverse(row) == [i \in 1 .. Len(row) |-> row[Len(row) + 1 - i]]

\* one enumerate loop of row_search from element i on; zoom is
\* img_zoom[axis]; rev tells the second loop, which records len(row) - row_ind
RECURSIVE RowScan(_, _, _, _, _, _)
RowScan(row, i, track, found, zoom, rev) ==
    IF i > Len(row) THEN found
    ELSE LET track1 == IF found = 0 /\ row[i] > gm_min THEN track + 1 ELSE track
             found1 == IF found = 0 /\ track1 * zoom >= mask_dist
                       THEN (IF rev THEN Len(row) - (i - 1) ELSE i - 1)
                       ELSE found
         IN  RowScan(row, i + 1, track1, found1, zoom, rev)

\* mutant: stop_mask is the index of the voxel that completes the count,
\* not the index after it
row_search_sym(row, zoom) ==
    LET stop0 == RowScan(Reverse(row), 1, 0, 0, zoom, TRUE)
    IN  [start |-> RowScan(row, 1, 0, 0, zoom, FALSE),
         stop  |-> IF stop0 = 0 THEN 0 ELSE stop0 - 1]

\* mutant: the count is compared with half of mask_dist
row_search_halfdist(row, zoom) ==
    [start |-> RowScan(row, 1, 0, 0, 2 * zoom, FALSE),
     stop  |-> RowScan(Reverse(row), 1, 0, 0, 2 * zoom, TRUE)]

\* the pair row_search returns
row_search(row, zoom) ==
    [start |-> RowScan(row, 1, 0, 0, zoom, FALSE),
     stop  |-> RowScan(Reverse(row), 1, 0, 0, zoom, TRUE)]

\* the list handed to row_search as it is left by row.reverse()
RowAfterSearch(row) == Reverse(row)

Found(rs) == rs.start # 0 /\ rs.stop # 0
Between(i, rs) == i > rs.start /\ i < rs.stop

CorRow(img, d, a, sg) == [i \in 1 .. d[3] |-> img[<<a, sg, i - 1>>]]
SagRow(img, d, a, c) == [i \in 1 .. d[2] |-> img[<<a, i - 1, c>>]]
AxRow(img, d, sg, c) == [i \in 1 .. d[1] |-> img[<<i - 1, sg, c>>]]

\* brain_mask_cor: every row of the mask is searched (and left reversed by
\* the search), then marked between start and stop when both are found
brain_mask_cor(mask, d, zoom) ==
    [p \in Pos(d) |->
        LET row == CorRow(mask, d, p[1], p[2])
            rs == row_search(row, zoom[3])
        IN  IF Found(rs) /\ Between(p[3], rs) THEN mask_set
            ELSE RowAfterSearch(row)[p[3] + 1]]

\* brain_mask_ax: rows of a coronal slice along the sagittal index,
\* searched with img_zoom[0]
brain_mask_ax(mask, img, d, zoom) ==
    [p \in Pos(d) |->
        LET rs == row_search(SagRow(img, d, p[1], p[3]), zoom[1])
        IN  IF Found(rs)
            THEN (IF Between(p[2], rs) /\ mask[p] = mask_set THEN mask[p] ELSE img[p])
            ELSE mask[p]]

\* brain_mask_sag: rows of a coronal slice along the axial index, searched
\* with img_zoom[1]
brain_mask_sag(mask, img, d, zoom) ==
    [p \in Pos(d) |->
        LET rs == row_search(AxRow(img, d, p[2], p[3]), zoom[2])
        IN  IF Found(rs)
            THEN (IF Between(p[1], rs) /\ mask[p] = mask_set THEN mask[p] ELSE img[p])
            ELSE mask[p]]

MaskFrame == UNCHANGED <<flags, swaps, img_unit, dims, img_zoom, wm_min, wm_max, gm_min, gm_max,
                         rind_cutoff, img_data, pre_flip, img_chg,
                         outer_rind_list, cursor, mask0>>

\* img_mask = make_copy(img_data); the passes end where remove_rind is called
MaskCopy ==
    /\ pc = "mask_copy"
    /\ img_mask' = make_copy(img_data)
    /\ in0' = img_data
    /\ applied' = Append(applied, Call("brain_mask"))
    /\ pc' = "mask_cor"
    /\ MaskFrame

MaskCor ==
    /\ pc = "mask_cor"
    /\ img_mask' = brain_mask_cor(img_mask, dims, img_zoom)
    /\ pc' = "mask_ax"
    /\ UNCHANGED <<in0, applied>>
    /\ MaskFrame

MaskAx ==
    /\ pc = "mask_ax"
    /\ img_mask' = brain_mask_ax(img_mask, img_data, dims, img_zoom)
    /\ pc' = "mask_sag"
    /\ UNCHANGED <<in0, applied>>
    /\ MaskFrame

MaskSag ==
    /\ pc = "mask_sag"
    /\ img_mask' = brain_mask_sag(img_mask, img_data, dims, img_zoom)
    /\ pc' = "rind_call"
    /\ UNCHANGED <<in0, applied>>
    /\ MaskFrame

(***************************************************************************)
(* The remove_rind specification: the call of remove_rind at the end of    *)
(* the driver, on grids whose first coronal row is arbitrary over RindVals *)
(* and whose other cells hold one fill value, with the band bounds as the  *)
(* driver has swapped them.                                                *)
(***************************************************************************)
RindVals == {background, 1000, 1600, 2000}
RindShape == <<MaxAx, MaxSag, MaxCor>>
RindZooms == {<<20, 20, 20>>, <<30, 30, 12>>}

RowGrids(d, vals, fills) ==
    {[p \in Pos(d) |-> IF p[1] = 0 /\ p[2] = 0 THEN row[p[3]] ELSE f] :
        row \in [0 .. d[3] - 1 -> vals], f \in fills}

InitRind ==
    /\ pc = "rind_call"
    /\ dims = RindShape
    /\ img_zoom \in RindZooms
    /\ wm_min = cfg_gm_min /\ wm_max = cfg_gm_max
    /\ gm_min = cfg_wm_min /\ gm_max = cfg_wm_max
    /\ rind_cutoff \in {2, cfg_rind_cutoff}
    /\ img_data \in RowGrids(dims, RindVals, {background, 1000})
    /\ img_mask \in {make_copy(img_data),
                      [p \in Pos(dims) |-> IF p[3] >= 1 THEN mask_set ELSE img_data[p]]}
    /\ pre_flip \in {make_copy(img_data),
                      [p \in Pos(dims) |-> 900 + 100 * p[3]]}
    /\ img_chg = <<>>
    /\ outer_rind_list = <<>>
    /\ cursor = 0
    /\ flags = <<>> /\ applied = <<>> /\ swaps = 0
    /\ in0 = <<>>
    /\ mask0 = <<>>
    /\ img_unit = 1

NextRind == RindEnter \/ RindVisit \/ RindScanEnd \/ RindCosmetic \/ RindReturn

SpecRind == InitRind /\ [][NextRind]_vars

(***************************************************************************)
(* The mask build specification: make_copy and the three passes, on block  *)
(* grids (a uniform block inside a background border) and on row grids,    *)
(* with the band bounds as the driver has swapped them.                    *)
(***************************************************************************)
MaxBlock == 3
BlockVal == 1000
MaskZooms == {<<20, 20, 20>>, <<10, 20, 25>>}

\* the number of voxels above gm_min a search with this zoom counts
NeedCount(zoom) == CHOOSE n \in 1 .. mask_dist : n * zoom >= mask_dist /\ (n - 1) * zoom < mask_dist

Max3(t) == IF t[1] >= t[2] /\ t[1] >= t[3] THEN t[1] ELSE IF t[2] >= t[3] THEN t[2] ELSE t[3]

BlockBorder(zoom) == 1 + Max3(<<NeedCount(zoom[1]), NeedCount(zoom[2]), NeedCount(zoom[3])>>)

InBox(p, lo, hi) == \A k \in 1 .. 3 : lo[k] <= p[k] /\ p[k] <= hi[k]

BlockInputs(zoom) ==
    LET b == BlockBorder(zoom)
    IN  {[d |-> <<2 * b + l[1], 2 * b + l[2], 2 * b + l[3]>>,
          g |-> [p \in Pos(<<2 * b + l[1], 2 * b + l[2], 2 * b + l[3]>>) |->
                    IF InBox(p, <<b, b, b>>, <<b + l[1] - 1, b + l[2] - 1, b + l[3] - 1>>)
                    THEN BlockVal ELSE background]] :
            l \in (1 .. MaxBlock) \X (1 .. MaxBlock) \X (1 .. MaxBlock)}

RowInputs ==
    {[d |-> RindShape, g |-> g] : g \in RowGrids(RindShape, RindVals, {background, 1000})}

InitMask ==
    /\ pc = "mask_copy"
    /\ img_zoom \in MaskZooms
    /\ \E inp \in BlockInputs(img_zoom) \cup RowInputs :
          dims = inp.d /\ img_data = inp.g
    /\ wm_min = cfg_gm_min /\ wm_max = cfg_gm_max
    /\ gm_min = cfg_wm_min /\ gm_max = cfg_wm_max
    /\ rind_cutoff = cfg_rind_cutoff
    /\ img_mask = <<>>
    /\ pre_flip = <<>>
    /\ img_chg = <<>>
    /\ outer_rind_list = <<>>
    /\ cursor = 0
    /\ flags = <<>> /\ applied = <<>> /\ swaps = 0
    /\ in0 = <<>>
    /\ mask0 = <<>>
    /\ img_unit = 1

NextMask == MaskCopy \/ MaskCor \/ MaskAx \/ MaskSag

SpecMask == InitMask /\ [][NextMask]_vars

\* the index of p lies strictly between the (start, stop) row_search finds
\* along the row of each pass through p, on grid img
InAllThreeRanges(img, d, zoom, p) ==
    LET rc == row_search(CorRow(img, d, p[1], p[2]), zoom[3])
        ra == row_search(SagRow(img, d, p[1], p[3]), zoom[1])
        rs == row_search(AxRow(img, d, p[2], p[3]), zoom[2])
    IN  /\ Found(rc) /\ Between(p[3], rc)
        /\ Found(ra) /\ Between(p[2], ra)
        /\ Found(rs) /\ Between(p[1], rs)

\* C3: after the three passes a mask cell holds mask_set if and only if its
\* index lies strictly between the (start, stop) found along all three rows
\* through it; a row without a found range leaves no mask_set on it.
C3_MaskIsIntersection ==
    pc = "rind_call" =>
        \A p \in Pos(dims) :
            img_mask[p] = mask_set <=> InAllThreeRanges(in0, dims, img_zoom, p)

\* C5: after the mask build every cell that does not hold mask_set holds
\* the input grid's intensity at the same position.
C5_UnmarkedCellsHoldInput ==
    pc = "rind_call" =>
        \A p \in Pos(dims) : img_mask[p] # mask_set => img_mask[p] = in0[p]

\* the cells of img above background, and the corners of their bounding box
Tissue(img, d) == {p \in Pos(d) : img[p] # background}
BoxLo(S) == [k \in 1 .. 3 |-> CHOOSE m \in {p[k] : p \in S} : \A p \in S : m <= p[k]]
BoxHi(S) == [k \in 1 .. 3 |-> CHOOSE m \in {p[k] : p \in S} : \A p \in S : m >= p[k]]

\* img is a uniform block above gm_min inside a background border that is
\* thicker, on every side of every axis, than mask_dist in voxels
IsBlock(img, d, zoom) ==
    LET S == Tissue(img, d)
    IN  /\ S # {}
        /\ \A p \in Pos(d) : InBox(p, BoxLo(S), BoxHi(S)) => p \in S
        /\ \A p, q \in S : img[p] = img[q] /\ img[p] > gm_min
        /\ \A k \in 1 .. 3 : \A z \in 1 .. 3 :
              /\ BoxLo(S)[k] * zoom[z] > mask_dist
              /\ (d[k] - 1 - BoxHi(S)[k]) * zoom[z] > mask_dist

\* the zoom with which the pass scanning along index k is searched
PassZoom(zoom) == <<zoom[2], zoom[1], zoom[3]>>

\* p is NeedCount cells or more from the block's low end and NeedCount - 1
\* cells or more from its high end along index k
InEroded(p, k, lo, hi, zoom) ==
    /\ p[k] >= lo[k] + NeedCount(PassZoom(zoom)[k])
    /\ p[k] <= hi[k] - NeedCount(PassZoom(zoom)[k]) + 1

NormLen == 4
NormVals == {-7, 0, 3, 500, 503, 2000, 10002}

Idle == /\ img_mask = <<>> /\ pre_flip = <<>> /\ img_chg = <<>>
        /\ outer_rind_list = <<>> /\ cursor = 0
        /\ flags = <<>> /\ applied = <<>> /\ swaps = 0
        /\ in0 = <<>> /\ mask0 = <<>> /\ img_unit = 1

PreSwapBounds ==
    /\ wm_min = cfg_wm_min /\ wm_max = cfg_wm_max
    /\ gm_min = cfg_gm_min /\ gm_max = cfg_gm_max

InitNorm ==
    /\ pc = "norm_call"
    /\ dims = <<1, 1, NormLen>>
    /\ img_zoom = <<20, 20, 20>>
    /\ PreSwapBounds
    /\ rind_cutoff = cfg_rind_cutoff
    /\ img_data \in [Pos(dims) -> NormVals]
    /\ Idle

\* img_data = image_normalization(img_data, norm_intens, background)
ImageNorm ==
    /\ pc = "norm_call"
    /\ in0' = img_data
    /\ img_data' = image_normalization(img_data)
    /\ pc' = "norm_done"
    /\ UNCHANGED <<driverVars, dims, img_zoom, wm_min, wm_max, gm_min, gm_max,
                   rind_cutoff, img_mask, pre_flip, img_chg, outer_rind_list,
                   cursor, mask0>>

NextNorm == ImageNorm

SpecNorm == InitNorm /\ [][NextNorm]_vars

\* the histogram of the voxels above background has its mode in the bin of
\* 500 and a smaller, non-empty spike in the bin of 2000
TwoSpike(img) ==
    /\ BinCount(img, BinOf(2000)) >= 1
    /\ \A b \in CountedBins(img) \cup {0} :
          b # BinOf(500) => BinCount(img, b) < BinCount(img, BinOf(500))

\* C10 as stated: on a two-spike histogram (mode 500, target 1785) every
\* voxel > 0 becomes its old value - 1285 and voxels <= 0 are unchanged.
C10_ShiftMinus1285 ==
    (pc = "norm_done" /\ TwoSpike(in0)) =>
        \A p \in Pos(dims) :
            img_data[p] = IF in0[p] > 0 THEN in0[p] - 1285 ELSE in0[p]

\* C10 amended: on a two-spike histogram (mode 500, target 1785) the
\* difference mode - target = -1285 is subtracted: every voxel > 0 becomes
\* its old value + 1285, which puts the mode on the target, and voxels <= 0
\* are unchanged.
C10_ShiftPlus1285 ==
    (pc = "norm_done" /\ TwoSpike(in0)) =>
        \A p \in Pos(dims) :
            img_data[p] = IF in0[p] > 0 THEN in0[p] + 1285 ELSE in0[p]

\* a two-spike grid with a voxel below 1, a voxel off the mode and a voxel
\* outside the histogram range has been normalised
C10_Witness ==
    /\ pc = "norm_done"
    /\ TwoSpike(in0)
    /\ \E p, q \in Pos(dims) :
          /\ in0[p] <= 0
          /\ in0[q] = 2000 /\ img_data[q] = 3285

\* C11: for every input grid with a voxel in a counted bin, the mode of the
\* normalised grid, computed the same way, is the target, and a second
\* image_normalization leaves the grid unchanged.
C11_ModeOnTarget ==
    (pc = "norm_done" /\ CountedBins(in0) # {}) =>
        /\ max_bin_loc(img_data) = norm_intens
        /\ image_normalization(img_data) = img_data

(***************************************************************************)
(* The smart_voxel_flip specification: the driver's call of                *)
(* smart_voxel_flip and its swap of the band bounds, followed by a second  *)
(* call with the swapped bounds, on a grid of one voxel.                   *)
(***************************************************************************)
MaxBand == 5

BandSets ==
    {<<cfg_wm_min, cfg_wm_max, cfg_gm_min, cfg_gm_max>>, <<300, 1700, 1700, 3000>>}
    \cup {b \in (1 .. MaxBand) \X (1 .. MaxBand) \X (1 .. MaxBand) \X (1 .. MaxBand) :
             b[1] < b[2] /\ b[2] <= b[3] /\ b[3] < b[4]}

\* mutant: the bounds are swapped only when the inverter is switched on
SwapBands_when_inverted ==
    IF flags.intensity_correct THEN <<gm_min, gm_max, wm_min, wm_max>>
    ELSE <<wm_min, wm_max, gm_min, gm_max>>

\* mutant: the bounds are left as they are
SwapBands_none == <<wm_min, wm_max, gm_min, gm_max>>

\* wm_min, gm_min = gm_min, wm_min ; wm_max, gm_max = gm_max, wm_max :
\* the new <<wm_min, wm_max, gm_min, gm_max>>
SwapBands == <<gm_min, gm_max, wm_min, wm_max>>

BandFrame == UNCHANGED <<wm_min, wm_max, gm_min, gm_max>>

InitFlip ==
    /\ pc = "flip_call"
    /\ dims = <<1, 1, 1>>
    /\ img_zoom = <<20, 20, 20>>
    /\ \E b \in BandSets :
          /\ wm_min = b[1] /\ wm_max = b[2]
          /\ gm_min = b[3] /\ gm_max = b[4]
    /\ rind_cutoff = cfg_rind_cutoff
    /\ img_data \in [Pos(dims) -> (wm_min - 1) .. gm_max]
    /\ Idle

\* img_data = smart_voxel_flip(img_data, wm_min, wm_max, gm_min, gm_max)
FlipOnce ==
    /\ pc = "flip_call"
    /\ in0' = img_data
    /\ img_data' = smart_voxel_flip(img_data, wm_min, wm_max, gm_min, gm_max)
    /\ pc' = "flip_swap"
    /\ BandFrame
    /\ UNCHANGED <<driverVars, dims, img_zoom, rind_cutoff, img_mask, pre_flip,
                   img_chg, outer_rind_list, cursor, mask0>>

\* the swap of the band bounds that follows the call
FlipSwap ==
    /\ pc = "flip_swap"
    /\ wm_min' = SwapBands[1] /\ wm_max' = SwapBands[2]
    /\ gm_min' = SwapBands[3] /\ gm_max' = SwapBands[4]
    /\ pc' = "flip_again"
    /\ UNCHANGED <<driverVars, dims, img_zoom, rind_cutoff, img_data, img_mask,
                   pre_flip, img_chg, outer_rind_list, cursor, in0, mask0>>

\* smart_voxel_flip applied again, with the swapped bounds
FlipAgain ==
    /\ pc = "flip_again"
    /\ img_data' = smart_voxel_flip(img_data, wm_min, wm_max, gm_min, gm_max)
    /\ pc' = "flip2_done"
    /\ BandFrame
    /\ UNCHANGED <<driverVars, dims, img_zoom, rind_cutoff, img_mask, pre_flip,
                   img_chg, outer_rind_list, cursor, in0, mask0>>

NextFlip == FlipOnce \/ FlipSwap \/ FlipAgain

SpecFlip == InitFlip /\ [][NextFlip]_vars

CeilDiv(n, d) == (n + d - 1) \div d

\* the error two truncations can leave, for band widths w and g
FlipTol(w, g) == IF CeilDiv(w, g) >= CeilDiv(g, w) THEN CeilDiv(w, g) ELSE CeilDiv(g, w)

Origin == <<0, 0, 0>>

\* in the state after the second call the bounds are the swapped ones: the
\* first call's wm_min is gm_min, its wm_max is gm_max, and so on
WithinTol(v, w) ==
    /\ w # background
    /\ v <= w
    /\ w <= v + FlipTol(gm_max - gm_min, wm_max - wm_min)

\* C7 as stated: every voxel v with wm_min <= v < gm_max is, after the two
\* calls, within the truncation error of v and not background.
C7_RoundTripWholeDomain ==
    pc = "flip2_done" =>
        ((gm_min <= in0[Origin] /\ in0[Origin] < wm_max)
            => WithinTol(in0[Origin], img_data[Origin]))

\* C7 amended: every v with wm_min < v < wm_max or gm_min < v < gm_max, and
\* v = gm_min when wm_max = gm_min, is after the two calls a value w with
\* v <= w <= v + max(ceil(wm_range/gm_range), ceil(gm_range/wm_range)) and
\* not background; v = wm_min is sent to gm_max by the first call and to
\* background by the second.
C7_RoundTripInsideBands ==
    pc = "flip2_done" =>
        LET v == in0[Origin]
        IN  /\ ((gm_min < v /\ v < gm_max) \/ (wm_min < v /\ v < wm_max)
                  \/ (v = wm_min /\ gm_max = wm_min))
                => WithinTol(v, img_data[Origin])
            /\ v = gm_min => img_data[Origin] = background

\* a voxel inside the white-matter band came back changed by truncation
C7_Witness ==
    /\ pc = "flip2_done"
    /\ gm_min < in0[Origin] /\ in0[Origin] < gm_max
    /\ img_data[Origin] # in0[Origin]
    /\ img_data[Origin] # background

InRind == pc \in {"rind_scan", "rind_cosmetic", "rind_done", "rind_error"}

\* the voxels the first loop has visited
RindVisited ==
    IF pc = "rind_scan" THEN {PosAt(dims, k) : k \in 0 .. cursor - 1}
    ELSE IF InRind THEN Pos(dims) ELSE {}

\* C1: remove_rind never changes a voxel whose bound_check boundary-load,
\* measured on the input grid, is below rind_cutoff: such a voxel holds its
\* input value during and after the replacement loop and the cosmetic loop.
C1_LowLoadUntouched ==
    InRind =>
        \A p \in Pos(dims) :
            bound_check(in0, dims, p, r_dist) < rind_cutoff
                => img_chg[p] = Fifth * in0[p]

\* remove_rind has returned, a near-white voxel with a boundary-load below
\* the cutoff exists, and another voxel was replaced and re-blended
C1_Witness ==
    /\ pc = "rind_done"
    /\ \E p \in Pos(dims) :
          NearWhite(in0[p]) /\ bound_check(in0, dims, p, r_dist) < rind_cutoff
    /\ \E k \in 1 .. Len(outer_rind_list) :
          img_chg[outer_rind_list[k]] # Fifth * in0[outer_rind_list[k]]

\* the number of distinct in-bounds positions of a box that satisfy Test
InBoundsCount(img, d, p, r, Test(_)) ==
    Cardinality({q \in Pos(d) \cap Box(p, r) : Test(img[q])})

IsBackground(v) == v = background
IsGray(v) == gm_max > v /\ v > gm_min
IsAboveGmMin(v) == v > gm_min

\* C2: a box position outside the grid on either side of an axis is absent:
\* the boundary-load of every visited voxel is the number of distinct
\* in-bounds box positions holding background, and the neighbours averaged
\* for it are the distinct in-bounds box positions holding tissue.
C2_OutOfBoundsAbsent ==
    pc = "rind_scan" =>
        \A p \in RindVisited :
            /\ bound_check(in0, dims, p, r_dist)
                   = InBoundsCount(in0, dims, p, r_dist, IsBackground)
            /\ Cardinality(RindHits(in0, mask0, dims, p, r_blur))
                   = IF mask0[p] = mask_set
                     THEN InBoundsCount(in0, dims, p, r_blur, IsAboveGmMin)
                     ELSE InBoundsCount(in0, dims, p, r_blur, IsGray)

\* what the first loop leaves in img_chg for voxel p, from the input alone
RindPassOne(img, mask, d, p) ==
    IF IsRind(img, d, p) THEN RindReplacement(img, mask, d, p) ELSE Fifth * img[p]

\* C6: the replacement loop computes every boundary-load and replacement
\* from the grid as it was when remove_rind was called, whatever has been
\* written before, and the input grid and the mask are never changed.
C6_SnapshotReads ==
    InRind =>
        /\ img_data = in0
        /\ img_mask = mask0
        /\ (pc = "rind_scan" \/ (pc = "rind_cosmetic" /\ cursor = 0)) =>
              \A p \in Pos(dims) :
                  img_chg[p] = IF p \in RindVisited
                               THEN RindPassOne(in0, mask0, dims, p)
                               ELSE Fifth * in0[p]

\* the first loop is over and replaced two voxels, the later one with the
\* earlier one inside its blur box and at a value the earlier one changed to
C6_Witness ==
    /\ pc = "rind_cosmetic" /\ cursor = 0
    /\ \E j, k \in 0 .. NumPos(dims) - 1 :
          /\ j < k
          /\ IsRind(in0, dims, PosAt(dims, j))
          /\ IsRind(in0, dims, PosAt(dims, k))
          /\ PosAt(dims, j) \in Box(PosAt(dims, k), r_blur)
          /\ img_chg[PosAt(dims, j)] # Fifth * in0[PosAt(dims, j)]
          /\ img_chg[PosAt(dims, k)] # Fifth * in0[PosAt(dims, k)]

(***************************************************************************)
(* The driver specification: the module-level statements from clean_bg to  *)
(* the save, for every combination of the enable flags, on small grids     *)
(* with the configured bounds.  A raised exception ends the run (pc        *)
(* "crashed", or "rind_error" inside remove_rind).                         *)
(***************************************************************************)
NormPt == 1
DriverZoom == <<20, 20, 20>>
DriverVals == {background, 300, 2000}
DriverFills == {background, 1000}

\* first coronal row arbitrary, the other cells one fill value, and
\* optionally a last coronal section of background
DriverGrids(d) ==
    {[q \in Pos(d) |->
        IF tail /\ q[3] = d[3] - 1 THEN background
        ELSE IF q[1] = 0 /\ q[2] = 0 THEN row[q[3]] ELSE f] :
        row \in [0 .. d[3] - 1 -> DriverVals], f \in DriverFills, tail \in BOOLEAN}

InitDriver ==
    /\ pc = "clean_bg"
    /\ dims = RindShape
    /\ img_zoom = DriverZoom
    /\ PreSwapBounds
    /\ rind_cutoff = cfg_rind_cutoff
    /\ img_data \in DriverGrids(dims)
    /\ \E ns, ni, ic, rr, cm \in BOOLEAN :
          \E npt \in (IF ns /\ ic THEN {NormPt, cfg_norm_intens_pt}
                                  ELSE {cfg_norm_intens_pt}) :
             flags = [normalize_slices |-> ns, normalize_image |-> ni,
                      intensity_correct |-> ic, remove_wm_rind |-> rr,
                      convert_to_mask |-> cm, norm_intens_pt |-> npt]
    /\ img_mask = <<>> /\ pre_flip = <<>> /\ img_chg = <<>>
    /\ outer_rind_list = <<>> /\ cursor = 0
    /\ applied = <<>> /\ swaps = 0
    /\ in0 = <<>> /\ mask0 = <<>> /\ img_unit = 1

\* img_data = clean_bg(img_data, search_dist, inclusion_req, wm_min, background)
CleanBg ==
    /\ pc = "clean_bg"
    /\ img_data' = clean_bg(img_data, dims, wm_min, search_dist, inclusion_req)
    /\ applied' = Append(applied, Call("clean_bg"))
    /\ pc' = "slice_norm"
    /\ cursor' = 0
    /\ BandFrame
    /\ UNCHANGED <<flags, swaps, img_unit, dims, img_zoom, rind_cutoff, img_mask,
                   pre_flip, img_chg, outer_rind_list, in0, mask0>>

\* if intensity_correct and normalize_slices: one call of the loop over
\* slice_list, or the end of the statement
SliceNorm ==
    /\ pc = "slice_norm"
    /\ IF flags.intensity_correct /\ flags.normalize_slices /\ cursor < Len(slice_list)
       THEN /\ applied' = Append(applied, Call("slice_normalization"))
            /\ IF SliceNormRaises(img_data, dims, slice_list[cursor + 1], wm_min,
                                  gm_max, flags.norm_intens_pt)
               THEN /\ pc' = "crashed"
                    /\ UNCHANGED <<img_data, cursor>>
               ELSE /\ img_data' = slice_normalization(img_data, dims,
                                        slice_list[cursor + 1], wm_min, gm_max,
                                        flags.norm_intens_pt)
                    /\ cursor' = cursor + 1
                    /\ pc' = pc
       ELSE /\ pc' = "image_norm"
            /\ cursor' = 0
            /\ UNCHANGED <<img_data, applied>>
    /\ BandFrame
    /\ UNCHANGED <<flags, swaps, img_unit, dims, img_zoom, rind_cutoff, img_mask,
                   pre_flip, img_chg, outer_rind_list, in0, mask0>>

\* if normalize_image: img_data = image_normalization(img_data, ...)
GlobalNorm ==
    /\ pc = "image_norm"
    /\ IF flags.normalize_image
       THEN /\ img_data' = image_normalization(img_data)
            /\ applied' = Append(applied, Call("image_normalization"))
       ELSE UNCHANGED <<img_data, applied>>
    /\ pc' = "flip"
    /\ BandFrame
    /\ UNCHANGED <<flags, swaps, img_unit, dims, img_zoom, rind_cutoff, img_mask,
                   pre_flip, img_chg, outer_rind_list, cursor, in0, mask0>>

\* pre_flip = make_copy(img_data); if intensity_correct: smart_voxel_flip
CopyFlip ==
    /\ pc = "flip"
    /\ pre_flip' = make_copy(img_data)
    /\ IF flags.intensity_correct
       THEN /\ img_data' = smart_voxel_flip(img_data, wm_min, wm_max, gm_min, gm_max)
            /\ applied' = Append(applied, Call("smart_voxel_flip"))
       ELSE UNCHANGED <<img_data, applied>>
    /\ pc' = "swap"
    /\ BandFrame
    /\ UNCHANGED <<flags, swaps, img_unit, dims, img_zoom, rind_cutoff, img_mask,
                   img_chg, outer_rind_list, cursor, in0, mask0>>

\* the two swap statements, and the test of remove_wm_rind that follows
SwapBounds ==
    /\ pc = "swap"
    /\ wm_min' = SwapBands[1] /\ wm_max' = SwapBands[2]
    /\ gm_min' = SwapBands[3] /\ gm_max' = SwapBands[4]
    /\ swaps' = swaps + 1
    /\ pc' = IF flags.remove_wm_rind THEN "mask_copy" ELSE "bright_if"
    /\ UNCHANGED <<flags, applied, img_unit, dims, img_zoom, rind_cutoff, img_data,
                   img_mask, pre_flip, img_chg, outer_rind_list, cursor, in0, mask0>>

\* img_data = (the grid remove_rind returned)
RindBind ==
    /\ pc = "rind_done"
    /\ img_data' = img_chg
    /\ img_unit' = Fifth
    /\ pc' = "bright_if"
    /\ BandFrame
    /\ UNCHANGED <<flags, applied, swaps, dims, img_zoom, rind_cutoff, img_mask,
                   pre_flip, img_chg, outer_rind_list, cursor, in0, mask0>>

\* mutant: the image is brightened in every run
BrightEnabled_always == TRUE

\* if not convert_to_mask:
BrightEnabled == ~flags.convert_to_mask

Bright ==
    /\ pc = "bright_if"
    /\ IF BrightEnabled
       THEN /\ img_data' = bright_image(img_data)
            /\ img_unit' = BrightDen * img_unit
            /\ applied' = Append(applied, Call("bright_image"))
       ELSE UNCHANGED <<img_data, img_unit, applied>>
    /\ pc' = "binarize_if"
    /\ BandFrame
    /\ UNCHANGED <<flags, swaps, dims, img_zoom, rind_cutoff, img_mask,
                   pre_flip, img_chg, outer_rind_list, cursor, in0, mask0>>

\* if convert_to_mask: the first pixel_cleanup
BinarizeIf ==
    /\ pc = "binarize_if"
    /\ IF flags.convert_to_mask
       THEN /\ applied' = Append(applied, Call("pixel_cleanup"))
            /\ pc' = IF PixelCleanupRaises(img_data, dims, img_zoom)
                     THEN "crashed" ELSE "cleanup_loop"
       ELSE /\ pc' = "save"
            /\ UNCHANGED applied
    /\ cursor' = 0
    /\ img_data' = pixel_cleanup(img_data)
    /\ BandFrame
    /\ UNCHANGED <<flags, swaps, img_unit, dims, img_zoom, rind_cutoff, img_mask,
                   pre_flip, img_chg, outer_rind_list, in0, mask0>>

\* one repetition of the loop: force_mask, then pixel_cleanup
CleanupRep ==
    /\ pc = "cleanup_loop"
    /\ cursor < cleanup_reps
    /\ img_data' = pixel_cleanup(force_mask(img_data, img_unit, wm_min, wm_max, gm_min))
    /\ img_unit' = 1
    /\ applied' = applied \o <<Call("force_mask"), Call("pixel_cleanup")>>
    /\ pc' = IF PixelCleanupRaises(img_data', dims, img_zoom) THEN "crashed" ELSE pc
    /\ cursor' = cursor + 1
    /\ BandFrame
    /\ UNCHANGED <<flags, swaps, dims, img_zoom, rind_cutoff, img_mask,
                   pre_flip, img_chg, outer_rind_list, in0, mask0>>

\* the force_mask after the loop; the grid is then saved
FinalForce ==
    /\ pc = "cleanup_loop"
    /\ cursor = cleanup_reps
    /\ img_data' = force_mask(img_data, img_unit, wm_min, wm_max, gm_min)
    /\ img_unit' = 1
    /\ applied' = Append(applied, Call("force_mask"))
    /\ pc' = "save"
    /\ BandFrame
    /\ UNCHANGED <<flags, swaps, dims, img_zoom, rind_cutoff, img_mask,
                   pre_flip, img_chg, outer_rind_list, cursor, in0, mask0>>

NextDriver ==
    \/ CleanBg \/ SliceNorm \/ GlobalNorm \/ CopyFlip \/ SwapBounds
    \/ MaskCopy \/ MaskCor \/ MaskAx \/ MaskSag
    \/ RindEnter \/ RindVisit \/ RindScanEnd \/ RindCosmetic \/ RindReturn
    \/ RindBind \/ Bright \/ BinarizeIf \/ CleanupRep \/ FinalForce

SpecDriver == InitDriver /\ [][NextDriver]_vars

\* the place of a stage in the order Cleaner, SliceNormalizer,
\* GlobalNormalizer, ContrastInverter, BrainMaskBuilder, RindRemover,
\* Binarizer, Brightener
StageRank(stage) ==
    CASE stage = "clean_bg" -> 1
      [] stage = "slice_normalization" -> 2
      [] stage = "image_normalization" -> 3
      [] stage = "smart_voxel_flip" -> 4
      [] stage = "brain_mask" -> 5
      [] stage = "remove_rind" -> 6
      [] stage \in {"pixel_cleanup", "force_mask"} -> 7
      [] stage = "bright_image" -> 8

Stages == {"clean_bg", "slice_normalization", "image_normalization",
           "smart_voxel_flip", "brain_mask", "remove_rind", "pixel_cleanup",
           "force_mask", "bright_image"}

InStageOrder ==
    \A i, j \in 1 .. Len(applied) :
        i < j => StageRank(applied[i].stage) <= StageRank(applied[j].stage)

Ran(stage) == \E i \in 1 .. Len(applied) : applied[i].stage = stage

LastStage == applied[Len(applied)].stage

\* the flags that enable a stage other than the Brightener
FlagOf(stage) ==
    CASE stage = "clean_bg" -> TRUE
      [] stage = "slice_normalization" -> flags.intensity_correct /\ flags.normalize_slices
      [] stage = "image_normalization" -> flags.normalize_image
      [] stage = "smart_voxel_flip" -> flags.intensity_correct
      [] stage \in {"brain_mask", "remove_rind"} -> flags.remove_wm_rind
      [] stage \in {"pixel_cleanup", "force_mask"} -> flags.convert_to_mask

ConfiguredBands == <<cfg_wm_min, cfg_wm_max, cfg_gm_min, cfg_gm_max>>
SwappedBands == <<cfg_gm_min, cfg_gm_max, cfg_wm_min, cfg_wm_max>>

PostSwapStages ==
    {"brain_mask", "remove_rind", "pixel_cleanup", "force_mask", "bright_image"}

\* C9: the band bounds are swapped once, after the ContrastInverter's
\* place in the run and before the BrainMaskBuilder: every stage up to and
\* including the inverter is called with the configured bounds, every later
\* stage with the swapped bounds, and a run that ends has swapped once.
C9_SwapOnceAfterInverter ==
    /\ swaps \in {0, 1}
    /\ <<wm_min, wm_max, gm_min, gm_max>> =
           IF swaps = 0 THEN ConfiguredBands ELSE SwappedBands
    /\ \A i \in 1 .. Len(applied) :
          IF applied[i].stage \in PostSwapStages
          THEN applied[i].swaps = 1 /\ applied[i].bands = SwappedBands
          ELSE applied[i].swaps = 0 /\ applied[i].bands = ConfiguredBands
    /\ pc \in {"mask_copy", "mask_cor", "mask_ax", "mask_sag", "rind_call",
                "rind_scan", "rind_cosmetic", "rind_done", "rind_error",
                "bright_if", "binarize_if", "cleanup_loop", "save"} => swaps = 1
    /\ pc \in {"clean_bg", "slice_norm", "image_norm", "flip", "swap"} => swaps = 0

\* a run has ended in which the inverter, the mask builder, the rind
\* remover and the brightener ran, the first with the configured bounds and
\* the others with the swapped ones
C9_Witness ==
    /\ pc = "save"
    /\ swaps = 1
    /\ \E i, j, k, l \in 1 .. Len(applied) :
          /\ applied[i].stage = "smart_voxel_flip" /\ applied[i].bands = ConfiguredBands
          /\ applied[j].stage = "brain_mask" /\ applied[j].bands = SwappedBands
          /\ applied[k].stage = "remove_rind" /\ applied[k].bands = SwappedBands
          /\ applied[l].stage = "bright_image" /\ applied[l].bands = SwappedBands

(***************************************************************************)
(* The slice_normalization specification: one call of slice_normalization  *)
(* with a slice_dist of 0 .. 3 on a grid whose coronal sections are either *)
(* filled with one value each or hold that value in one voxel only.        *)
(* cursor records the slice_dist of the call, in0 the grid passed in.      *)
(***************************************************************************)
SliceVals == {background, 400, 1000, 2000, 3200}
SliceDists == 0 .. slice_list[Len(slice_list)]
SliceShapes == {<<MaxAx, MaxSag, c>> : c \in 1 .. MaxCor + 1}

SliceGrid(d, s, fill) ==
    [q \in Pos(d) |->
        IF fill \/ (q[1] = 0 /\ q[2] = 0) THEN s[q[3] + 1] ELSE background]

InitSlice ==
    /\ pc = "slice_call"
    /\ dims \in SliceShapes
    /\ img_zoom = <<20, 20, 20>>
    /\ PreSwapBounds
    /\ rind_cutoff = cfg_rind_cutoff
    /\ \E fill \in BOOLEAN : \E s \in [1 .. dims[3] -> SliceVals] :
          img_data = SliceGrid(dims, s, fill)
    /\ flags = [norm_intens_pt |-> NormPt]
    /\ img_mask = <<>> /\ pre_flip = <<>> /\ img_chg = <<>>
    /\ outer_rind_list = <<>> /\ cursor = 0
    /\ applied = <<>> /\ swaps = 0
    /\ in0 = <<>> /\ mask0 = <<>> /\ img_unit = 1

SliceFrame ==
    UNCHANGED <<driverVars, dims, img_zoom, wm_min, wm_max, gm_min, gm_max,
                rind_cutoff, img_mask, pre_flip, img_chg, outer_rind_list,
                mask0>>

\* img_data = slice_normalization(img_data, slice_dist, ...), returning
SliceCall ==
    /\ pc = "slice_call"
    /\ \E sd \in SliceDists :
          /\ ~SliceNormRaises(img_data, dims, sd, wm_min, gm_max,
                              flags.norm_intens_pt)
          /\ img_data' = slice_normalization(img_data, dims, sd, wm_min, gm_max,
                                             flags.norm_intens_pt)
          /\ cursor' = sd
    /\ in0' = img_data
    /\ pc' = "slice_done"
    /\ SliceFrame

\* the same call, ending in an exception that nothing catches
SliceRaise ==
    /\ pc = "slice_call"
    /\ \E sd \in SliceDists :
          /\ SliceNormRaises(img_data, dims, sd, wm_min, gm_max,
                             flags.norm_intens_pt)
          /\ cursor' = sd
    /\ in0' = img_data
    /\ pc' = "slice_error"
    /\ UNCHANGED img_data
    /\ SliceFrame

NextSlice == SliceCall \/ SliceRaise

SpecSlice == InitSlice /\ [][NextSlice]_vars

\* the input is a volume of one intensity u inside (wm_min, gm_max) with the
\* single section k filled with a brighter b, every section holding more
\* than norm_intens_pt voxels
BrightSection(img, d, k, u, b) ==
    /\ d[3] >= 2 /\ d[1] * d[2] > flags.norm_intens_pt
    /\ wm_min < u /\ u < gm_max /\ u < b
    /\ \A q \in Pos(d) : img[q] = IF q[3] = k THEN b ELSE u

Neighbours(d, k) == {c \in {k - 1, k + 1} : 0 <= c /\ c < d[3]}

\* section k of img holds one value, and twice that value is within 1 of
\* the sum of the values of its two neighbouring sections, or the value is
\* within 1 of that of its single neighbour
NearNeighbourAverage(img, d, k) ==
    LET v == img[<<0, 0, k>>]
        N == Neighbours(d, k)
        sum == SumFn([c \in N |-> img[<<0, 0, c>>]])
    IN  /\ \A q \in Pos(d) : q[3] = k => img[q] = v
        /\ Cardinality(N) * (v - 1) <= sum
        /\ sum <= Cardinality(N) * (v + 1)

\* C12: after slice_normalization with any slice_dist on a uniform volume
\* with one brighter section, that section's intensity is within 1 of the
\* average intensity of its neighbouring sections.
C12_BrightSectionLevelled ==
    \A k \in 0 .. dims[3] - 1 : \A u, b \in SliceVals :
        (pc = "slice_done" /\ BrightSection(in0, dims, k, u, b)) =>
            NearNeighbourAverage(img_data, dims, k)

\* C12 (amended): after slice_normalization with slice_dist = 0 on such a
\* volume, every section, the brighter one included, holds the
\* representative intensity of the middle section.
C12_BrightSectionLevelledAtZero ==
    \A k \in 0 .. dims[3] - 1 : \A u, b \in SliceVals :
        (pc = "slice_done" /\ cursor = 0 /\ BrightSection(in0, dims, k, u, b)) =>
            /\ NearNeighbourAverage(img_data, dims, k)
            /\ \A q \in Pos(dims) :
                  img_data[q] = (IF k = dims[3] \div 2 THEN b ELSE u)

C12_Witness ==
    /\ pc = "slice_done" /\ cursor = 0
    /\ \E k \in 0 .. dims[3] - 1 :
          /\ k # dims[3] \div 2
          /\ BrightSection(in0, dims, k, 1000, 2000)
          /\ img_data[<<0, 0, k>>] = 1000
          /\ in0[<<0, 0, k>>] = 2000

\* the mean the local average is said to be: the section's own entry once,
\* and the entries below gm_max of the sections at distance 1 .. slice_dist
\* that lie inside the list
OnceAndNeighbours(intensity_list, cor_loc, slice_dist, gmx) ==
    LET n == Len(intensity_list)
        near == {c \in 0 .. n - 1 :
                    /\ c # cor_loc
                    /\ c >= cor_loc - slice_dist /\ c <= cor_loc + slice_dist
                    /\ intensity_list[c + 1] < gmx}
    IN  PyFloorDiv(intensity_list[cor_loc + 1]
                       + SumFn([c \in near |-> intensity_list[c + 1]]),
                   1 + Cardinality(near))

\* C13: the local average of every section is the integer mean of its own
\* representative intensity counted once and those of the existing sections
\* within slice_dist that are below gm_max.
C13_LocalAverage ==
    pc \in {"slice_done", "slice_error"} =>
        LET all == all_intensity_list(in0, dims, wm_min, gm_max,
                                      flags.norm_intens_pt)
        IN  \A c \in 0 .. dims[3] - 1 :
                intensity_norm_calc(all, c, cursor, gm_max)
                    = OnceAndNeighbours(all, c, cursor, gm_max)

(***************************************************************************)
(* The clean_bg specification: the two loops of clean_bg, one action each, *)
(* on a grid of two axial and two coronal layers that is background but    *)
(* for at most one voxel at or below wm_min and at most inclusion_req above *)
(* it.  flags holds the search_dist and inclusion_req arguments, in0 the   *)
(* grid passed in and mask0 the grid between the two loops.                *)
(***************************************************************************)
CleanShape == <<2, MaxSag, 2>>
CleanDists == {0, 1, search_dist}
CleanReqs == 1 .. inclusion_req
CleanLow == {300, cfg_wm_min}

CleanGrid(d, T, l, lv) ==
    [q \in Pos(d) |-> IF q \in T THEN 2000
                      ELSE IF q = l THEN lv ELSE background]

InitClean ==
    /\ pc = "clean_call"
    /\ dims = CleanShape
    /\ img_zoom = <<20, 20, 20>>
    /\ PreSwapBounds
    /\ rind_cutoff = cfg_rind_cutoff
    /\ \E T \in {X \in SUBSET Pos(dims) : Cardinality(X) <= inclusion_req} :
       \E l \in Pos(dims) : \E lv \in CleanLow :
          img_data = CleanGrid(dims, T, l, lv)
    /\ \E sd \in CleanDists : \E req \in CleanReqs :
          flags = [search_dist |-> sd, inclusion_req |-> req]
    /\ img_mask = <<>> /\ pre_flip = <<>> /\ img_chg = <<>>
    /\ outer_rind_list = <<>> /\ cursor = 0
    /\ applied = <<>> /\ swaps = 0
    /\ in0 = <<>> /\ mask0 = <<>> /\ img_unit = 1

CleanFrame ==
    UNCHANGED <<driverVars, dims, img_zoom, wm_min, wm_max, gm_min, gm_max,
                rind_cutoff, img_mask, pre_flip, img_chg, outer_rind_list,
                cursor>>

\* the first loop of clean_bg
CleanFirst ==
    /\ pc = "clean_call"
    /\ in0' = img_data
    /\ img_data' = CleanPass1(img_data, dims, wm_min, flags.search_dist,
                              flags.inclusion_req, 0)
    /\ pc' = "clean_pass2"
    /\ UNCHANGED mask0
    /\ CleanFrame

\* the second loop of clean_bg
CleanSecond ==
    /\ pc = "clean_pass2"
    /\ mask0' = img_data
    /\ img_data' = CleanPass2(img_data, dims, 0)
    /\ pc' = "clean_done"
    /\ UNCHANGED in0
    /\ CleanFrame

NextClean == CleanFirst \/ CleanSecond

SpecClean == InitClean /\ [][NextClean]_vars

InGrid(d, i) == \A a \in 1 .. 3 : 0 <= i[a] /\ i[a] < d[a]

Shifted(q, a, off) == [q EXCEPT ![a] = q[a] + off]

\* how many of the three voxels at offset off from q, one per axis, are
\* inside the grid and above wm_min
ProbeCount(img, d, q, off) ==
    SumFn([a \in 1 .. 3 |->
            IF InGrid(d, Shifted(q, a, off)) /\ img[Shifted(q, a, off)] > wm_min
            THEN 1 ELSE 0])

\* the first loop resets exactly the voxels of (background, wm_min) that
\* have fewer than inclusion_req successful probes at offset off
Pass1ResetsBy(off) ==
    \A q \in Pos(dims) :
        img_data[q] =
            IF /\ background < in0[q] /\ in0[q] < wm_min
               /\ ProbeCount(in0, dims, q, off) < flags.inclusion_req
            THEN background ELSE in0[q]

OnFace(d, q) == \E a \in 1 .. 3 : q[a] = 0 \/ q[a] = d[a] - 1

\* the distinct positions of the 3x3x3 cube of q, q excepted, that lie
\* inside the grid and hold background
BackgroundNeighbours(img, d, q) ==
    {i \in Box(q, <<1, 1, 1>>) \ {q} : InGrid(d, i) /\ img[i] = background}

\* C15: pass 2 zeroes a voxel only if at least 26 distinct in-bounds
\* neighbours of its cube are background, so it zeroes no voxel on a face
\* of the grid.
C15_FaceVoxelsKept ==
    pc = "clean_done" =>
        \A q \in Pos(dims) :
            (mask0[q] > background /\ img_data[q] = background) =>
                /\ Cardinality(BackgroundNeighbours(img_data, dims, q)) >= 26
                /\ ~OnFace(dims, q)

(***************************************************************************)
(* The configuration specification: the driver run from its first          *)
(* statement, with the band constants of lines 67-70 either as shipped or  *)
(* edited into an inconsistent configuration.                              *)
(***************************************************************************)
ConfigBands ==
    { <<cfg_wm_min, cfg_wm_max, cfg_gm_min, cfg_gm_max>>,
      <<cfg_wm_max, cfg_wm_min, cfg_gm_min, cfg_gm_max>>,
      <<cfg_wm_min, cfg_gm_max, cfg_gm_min, cfg_gm_max>>,
      <<cfg_wm_min, cfg_wm_max, cfg_gm_min, mask_set + 1>> }

InitConfig ==
    /\ pc = "clean_bg"
    /\ dims = RindShape
    /\ img_zoom = DriverZoom
    /\ \E b \in ConfigBands :
          wm_min = b[1] /\ wm_max = b[2] /\ gm_min = b[3] /\ gm_max = b[4]
    /\ rind_cutoff = cfg_rind_cutoff
    /\ img_data \in DriverGrids(dims)
    /\ \E ns, ni, ic, rr, cm \in BOOLEAN :
          flags = [normalize_slices |-> ns, normalize_image |-> ni,
                   intensity_correct |-> ic, remove_wm_rind |-> rr,
                   convert_to_mask |-> cm, norm_intens_pt |-> NormPt]
    /\ img_mask = <<>> /\ pre_flip = <<>> /\ img_chg = <<>>
    /\ outer_rind_list = <<>> /\ cursor = 0
    /\ applied = <<>> /\ swaps = 0
    /\ in0 = <<>> /\ mask0 = <<>> /\ img_unit = 1

SpecConfig == InitConfig /\ [][NextDriver]_vars

\* the band constants as configured, whatever the swap has done since
InitialBands ==
    IF swaps = 0 THEN <<wm_min, wm_max, gm_min, gm_max>>
                 ELSE <<gm_min, gm_max, wm_min, wm_max>>

Consistent(b) ==
    /\ background < b[1] /\ b[1] <= b[2] /\ b[2] <= b[3] /\ b[3] <= b[4]
    /\ ~(b[1] <= mask_set /\ mask_set < b[4])

\* C16: with an inconsistent configuration no stage is applied to the grid
\* and the run never reaches the save of an output grid.
C16_InconsistentConfigStops ==
    ~Consistent(InitialBands) => (applied = <<>> /\ pc # "save")

\* no section of img yields a ranked representative intensity, or the local
\* average of some section is zero
DegenerateStatistics(img, d, slice_dist) ==
    \/ RankedSections(img, d, wm_min, flags.norm_intens_pt) = {}
    \/ \E c \in 0 .. d[3] - 1 :
          intensity_norm_calc(all_intensity_list(img, d, wm_min, gm_max,
                                                 flags.norm_intens_pt),
                              c, slice_dist, gm_max) = 0

\* C17: on degenerate statistics slice_normalization raises nothing and
\* returns a grid of the input shape.
C17_DegenerateNeverRaises ==
    (pc \in {"slice_done", "slice_error"}
        /\ DegenerateStatistics(in0, dims, cursor)) =>
            (pc = "slice_done" /\ DOMAIN img_data = DOMAIN in0)

\* the cosmetic loop is at a rind voxel whose count of blur-radius
\* neighbours above background, the voxel itself taken off, is zero
CosmeticCountZero ==
    /\ pc = "rind_cosmetic"
    /\ cursor < Len(outer_rind_list)
    /\ Cardinality(CosmeticHits(pre_flip, dims, outer_rind_list[cursor + 1])) - 1 = 0

\* C18: when the neighbour count of the cosmetic pass is zero, the pass
\* keeps the voxel's replaced value, raises nothing and goes on to the next
\* rind voxel.
C18_ZeroCountKeepsValue ==
    [][CosmeticCountZero =>
          (pc' = "rind_cosmetic" /\ cursor' = cursor + 1 /\ img_chg' = img_chg)]_vars

(***************************************************************************)
(* The unit-grid specification: each windowed search called once on a      *)
(* 1x1x1 grid.  cursor receives the value the search returns and pc names  *)
(* the search; flags holds the search_dist, inclusion_req, slice_dist and  *)
(* norm_intens_pt arguments.                                               *)
(***************************************************************************)
UnitShape == <<1, 1, 1>>
UnitPos == <<0, 0, 0>>
UnitVals == {background, 300, 1000, 1600, 2000, 3200}

InitUnit ==
    /\ pc = "unit_call"
    /\ dims = UnitShape
    /\ img_zoom \in RindZooms
    /\ \E b \in {ConfiguredBands, SwappedBands} :
          wm_min = b[1] /\ wm_max = b[2] /\ gm_min = b[3] /\ gm_max = b[4]
    /\ rind_cutoff = cfg_rind_cutoff
    /\ img_data \in [Pos(dims) -> UnitVals]
    /\ img_mask \in {make_copy(img_data), [q \in Pos(dims) |-> mask_set]}
    /\ \E sd \in SliceDists : \E npt \in {0, NormPt} :
          flags = [search_dist |-> search_dist, inclusion_req |-> inclusion_req,
                   slice_dist |-> sd, norm_intens_pt |-> npt]
    /\ pre_flip = <<>> /\ img_chg = <<>>
    /\ outer_rind_list = <<>> /\ cursor = 0
    /\ applied = <<>> /\ swaps = 0
    /\ in0 = <<>> /\ mask0 = <<>> /\ img_unit = 1

UnitFrame ==
    UNCHANGED <<driverVars, dims, img_zoom, wm_min, wm_max, gm_min, gm_max,
                rind_cutoff, img_data, img_mask, pre_flip, img_chg,
                outer_rind_list, in0, mask0>>

UnitIsolation ==
    /\ pc = "unit_call"
    /\ cursor' = isolation_check(img_data, dims, UnitPos, wm_min,
                                 flags.search_dist, flags.inclusion_req)
    /\ pc' = "isolation_check"
    /\ UnitFrame

UnitIsoPx ==
    /\ pc = "unit_call"
    /\ cursor' = iso_px_check(img_data, dims, UnitPos)
    /\ pc' = "iso_px_check"
    /\ UnitFrame

UnitBound ==
    /\ pc = "unit_call"
    /\ cursor' = bound_check(img_data, dims, UnitPos, r_dist)
    /\ pc' = "bound_check"
    /\ UnitFrame

UnitRindVox ==
    /\ pc = "unit_call"
    /\ cursor' = rind_vox_calc(img_data, img_mask, dims, UnitPos, r_blur)
    /\ pc' = "rind_vox_calc"
    /\ UnitFrame

UnitNormCalc ==
    /\ pc = "unit_call"
    /\ cursor' = intensity_norm_calc(
                    all_intensity_list(img_data, dims, wm_min, gm_max,
                                       flags.norm_intens_pt),
                    0, flags.slice_dist, gm_max)
    /\ pc' = "intensity_norm_calc"
    /\ UnitFrame

NextUnit == UnitIsolation \/ UnitIsoPx \/ UnitBound \/ UnitRindVox \/ UnitNormCalc

SpecUnit == InitUnit /\ [][NextUnit]_vars

\* what each search returns when only the voxel itself is looked at
SelfOnly(search) ==
    LET v == img_data[UnitPos]
    IN  CASE search = "isolation_check" -> 0
          [] search \in {"iso_px_check", "bound_check"} ->
                IF v = background THEN 1 ELSE 0
          [] search = "rind_vox_calc" ->
                IF \/ v > gm_min /\ img_mask[UnitPos] = mask_set
                   \/ gm_max > v /\ v > gm_min
                THEN v ELSE 0
          [] search = "intensity_norm_calc" ->
                all_intensity_list(img_data, dims, wm_min, gm_max,
                                   flags.norm_intens_pt)[1]

TissueInFirst(row, k) == Cardinality({j \in 1 .. k : row[j] > gm_min})
TissueInLast(row, k) ==
    Cardinality({j \in Len(row) - k + 1 .. Len(row) : row[j] > gm_min})

\* start and stop as row_search records them once n voxels above gm_min
\* have been passed: start is the first index after 0 (an index of 0 reads
\* as not yet found) by which n were met, stop is len(row) less the number
\* of elements skipped from the end before n were met; 0 when never met
StartAfter(row, n) ==
    LET I == {i \in 1 .. Len(row) - 1 : TissueInFirst(row, i + 1) >= n}
    IN  IF I = {} THEN 0 ELSE CHOOSE i \in I : \A j \in I : i <= j

StopAfter(row, n) ==
    LET J == {j \in 0 .. Len(row) - 1 : TissueInLast(row, j + 1) >= n}
    IN  IF J = {} THEN 0 ELSE Len(row) - (CHOOSE j \in J : \A k \in J : j <= k)

TruncCount(zoom) == Trunc(mask_dist, zoom)
CeilCount(zoom) == CeilDiv(mask_dist, zoom)

\* every row the three mask passes search, with the spacing they pass
SearchedRows ==
    {<<CorRow(in0, dims, q[1], q[2]), img_zoom[3]>> : q \in Pos(dims)}
    \cup {<<SagRow(in0, dims, q[1], q[3]), img_zoom[1]>> : q \in Pos(dims)}
    \cup {<<AxRow(in0, dims, q[2], q[3]), img_zoom[2]>> : q \in Pos(dims)}

RadiiTruncate ==
    \A k \in 1 .. 3 :
        /\ r_dist[k] = Trunc(rind_thickness + rind_explore, img_zoom[k])
        /\ r_blur[k] = Trunc(blur_range, img_zoom[k])

\* the coronal pass has marked exactly the cells strictly between the start
\* and stop that Count gives, in the rows where both are found
CorMarkedBy(Count(_)) ==
    \A q \in Pos(dims) :
        LET row == CorRow(in0, dims, q[1], q[2])
            n == Count(img_zoom[3])
        IN  (img_mask[q] = mask_set) <=>
                /\ StartAfter(row, n) # 0 /\ StopAfter(row, n) # 0
                /\ q[3] > StartAfter(row, n) /\ q[3] < StopAfter(row, n)

\* C20: the rind radii are truncated quotients, and row_search records
\* start and stop after trunc(mask_dist / spacing) voxels above gm_min.
C20_AllConversionsTruncate ==
    pc = "mask_ax" =>
        /\ RadiiTruncate
        /\ \A r \in SearchedRows :
              row_search(r[1], r[2]) = [start |-> StartAfter(r[1], TruncCount(r[2])),
                                        stop |-> StopAfter(r[1], TruncCount(r[2]))]
        /\ CorMarkedBy(TruncCount)

\* C20 (amended): the rind radii are truncated quotients; row_search
\* converts nothing and records start and stop after the least whole number
\* of voxels that is at least mask_dist / spacing.
C20_RadiiTruncateCountRoundsUp ==
    pc = "mask_ax" =>
        /\ RadiiTruncate
        /\ \A r \in SearchedRows :
              row_search(r[1], r[2]) = [start |-> StartAfter(r[1], CeilCount(r[2])),
                                        stop |-> StopAfter(r[1], CeilCount(r[2]))]
        /\ CorMarkedBy(CeilCount)

C20_Witness ==
    /\ pc = "mask_ax"
    /\ TruncCount(img_zoom[3]) # CeilCount(img_zoom[3])
    /\ r_dist[3] = 0 /\ r_blur[3] = 1
    /\ \E q \in Pos(dims) : img_mask[q] = mask_set

(***************************************************************************)
(* The end-to-end scenario: smart_voxel_flip, the swap and a second flip   *)
(* on a cube of one tissue value with a 2x2x2 core of background.          *)
(***************************************************************************)
SceneSide == 4
SceneShape == <<SceneSide, SceneSide, SceneSide>>
SceneVals == {1000, 2000, 2584}
SceneBands == {ConfiguredBands, <<300, 1700, 1700, 3000>>}

InCore(p, o) == \A k \in 1 .. 3 : o[k] <= p[k] /\ p[k] <= o[k] + 1

SceneGrid(o, v) == [p \in Pos(SceneShape) |-> IF InCore(p, o) THEN background ELSE v]

InitScene ==
    /\ pc = "flip_call"
    /\ dims = SceneShape
    /\ img_zoom = <<20, 20, 20>>
    /\ \E b \in SceneBands :
          /\ wm_min = b[1] /\ wm_max = b[2]
          /\ gm_min = b[3] /\ gm_max = b[4]
    /\ rind_cutoff = cfg_rind_cutoff
    /\ \E o \in Pos(<<SceneSide - 1, SceneSide - 1, SceneSide - 1>>) :
       \E v \in SceneVals : img_data = SceneGrid(o, v)
    /\ Idle

SpecScene == InitScene /\ [][NextFlip]_vars

\* the grid passed to the first flip is the scenario's: 2000 everywhere but
\* a 2x2x2 core of background, with the bands 300, 1700, 1700, 3000
SceneOfSpec ==
    /\ pc = "flip_swap"
    /\ <<wm_min, wm_max, gm_min, gm_max>> = <<300, 1700, 1700, 3000>>
    /\ \E o \in Pos(<<SceneSide - 1, SceneSide - 1, SceneSide - 1>>) :
          in0 = SceneGrid(o, 2000)

SceneMapsTo(x) ==
    \A p \in Pos(dims) :
        img_data[p] = IF in0[p] = 2000 THEN x ELSE background

\* C21: in the scenario smart_voxel_flip maps every 2000-valued voxel to
\* 1377 and every core voxel to background.
C21_SceneGives1377 == SceneOfSpec => SceneMapsTo(1377)

\* C21 (amended): it maps every 2000-valued voxel to 1376, the quotient
\* 1376.92 truncated, and every core voxel to background.
C21_SceneGives1376 == SceneOfSpec => SceneMapsTo(1376)

C21_Witness ==
    /\ SceneOfSpec
    /\ in0[<<0, 0, 0>>] = 2000 /\ img_data[<<0, 0, 0>>] = 1376
    /\ in0[<<1, 1, 1>>] = background /\ img_data[<<1, 1, 1>>] = background

ForceSteps == {k \in 1 .. Len(applied) : applied[k].stage = "force_mask"}

\* C22: with the Binarizer enabled the run does not stop inside it, and it
\* hands on a grid whose last change was a force step, the last of
\* cleanup_reps + 1, with every voxel at background, gm_min or wm_max.
C22_BinarizerEndsOnForce ==
    /\ (pc = "crashed" /\ applied # <<>>) =>
            applied[Len(applied)].stage # "pixel_cleanup"
    /\ (pc = "save" /\ flags.convert_to_mask) =>
            /\ applied[Len(applied)].stage = "force_mask"
            /\ Cardinality(ForceSteps) = cleanup_reps + 1
            /\ img_unit = 1
            /\ \A q \in Pos(dims) : img_data[q] \in {background, gm_min, wm_max}

(***************************************************************************)
(* The rebuild specification: lines 729-735, the copy and the three mask   *)
(* passes, run twice in a row on the grid the first run leaves.  in0 is    *)
(* the grid before the first build, mask0 the mask of the first build.     *)
(***************************************************************************)
\* img_mask after make_copy and the three passes
BuildMask(img, d, zoom) ==
    brain_mask_sag(
        brain_mask_ax(brain_mask_cor(make_copy(img), d, zoom), img, d, zoom),
        img, d, zoom)

\* mutant: the mask shares its rows with img_data, so the coronal pass
\* reverses and marks the rows of img_data
InputAfterBuild_aliased(img, d, zoom) == brain_mask_cor(img, d, zoom)

\* img_data after a build: make_copy gives the mask lists of its own, the
\* axial and sagittal passes search lists they build themselves, and every
\* assignment is to img_mask
InputAfterBuild(img, d, zoom) == img

InitBuild ==
    /\ pc = "build_call"
    /\ img_zoom \in MaskZooms
    /\ \E inp \in BlockInputs(img_zoom) \cup RowInputs :
          dims = inp.d /\ img_data = inp.g
    /\ wm_min = cfg_gm_min /\ wm_max = cfg_gm_max
    /\ gm_min = cfg_wm_min /\ gm_max = cfg_wm_max
    /\ rind_cutoff = cfg_rind_cutoff
    /\ img_mask = <<>>
    /\ Idle

BuildFrame ==
    UNCHANGED <<driverVars, dims, img_zoom, wm_min, wm_max, gm_min, gm_max,
                rind_cutoff, pre_flip, img_chg, outer_rind_list, cursor>>

BuildOnce ==
    /\ pc = "build_call"
    /\ in0' = img_data
    /\ img_mask' = BuildMask(img_data, dims, img_zoom)
    /\ img_data' = InputAfterBuild(img_data, dims, img_zoom)
    /\ pc' = "build_again"
    /\ UNCHANGED mask0
    /\ BuildFrame

BuildAgain ==
    /\ pc = "build_again"
    /\ mask0' = img_mask
    /\ img_mask' = BuildMask(img_data, dims, img_zoom)
    /\ img_data' = InputAfterBuild(img_data, dims, img_zoom)
    /\ pc' = "build_done"
    /\ UNCHANGED in0
    /\ BuildFrame

NextBuild == BuildOnce \/ BuildAgain

SpecBuild == InitBuild /\ [][NextBuild]_vars

MirrorLen == 3

\* idx with its entry for one axis (0 or 1) replaced
AlongAxis(q, axis, i) == [q EXCEPT ![axis + 1] = i]

\* the loop of move_image (axis 1) and move_image_90 (axis 0) from voxel
\* number k on: reads img_copy, assigns into img_data, a failed read passes
RECURSIVE MoveLoop(_, _, _, _, _, _)
MoveLoop(img, img_copy, d, move_size, axis, k) ==
    IF k >= NumPos(d) THEN img
    ELSE LET q == PosAt(d, k)
             src == AlongAxis(q, axis, q[axis + 1] - move_size)
         IN  IF LookupOk(d, src)
             THEN MoveLoop([img EXCEPT ![q] = Lookup(img_copy, d, src)],
                           img_copy, d, move_size, axis, k + 1)
             ELSE MoveLoop(img, img_copy, d, move_size, axis, k + 1)

move_image(d, move_size, img) == MoveLoop(img, make_copy(img), d, move_size, 1, 0)

move_image_90(d, move_size, img) == MoveLoop(img, make_copy(img), d, move_size, 0, 0)

\* mirror_point of both mirror functions
MirrorPoint(d, mirror_line) == PyFloorDiv(d[2], 2) + mirror_line

\* one iteration of the innermost loop of mirror_data (axis 1) and
\* mirror_data_90 (axis 0): reads and assigns img_data itself
MirrorVoxel(img, d, q, mp, axis, sw) ==
    LET i == q[axis + 1]
        fromRight == AlongAxis(q, axis, mp + (mp - i))
        fromLeft == AlongAxis(q, axis, mp - (i - mp))
    IN  IF sw.make_left_mirror /\ i < mp
        THEN IF LookupOk(d, fromRight)
             THEN [img EXCEPT ![q] = Lookup(img, d, fromRight)] ELSE img
        ELSE IF sw.make_right_mirror /\ i > mp
        THEN IF LookupOk(d, fromLeft)
             THEN [img EXCEPT ![q] = Lookup(img, d, fromLeft)] ELSE img
        ELSE IF sw.check_orient /\ i > mp
        THEN [img EXCEPT ![q] = 0]
        ELSE img

RECURSIVE MirrorLoop(_, _, _, _, _, _)
MirrorLoop(img, d, mp, axis, sw, k) ==
    IF k >= NumPos(d) THEN img
    ELSE MirrorLoop(MirrorVoxel(img, d, PosAt(d, k), mp, axis, sw),
                    d, mp, axis, sw, k + 1)

mirror_data(mirror_line, d, img, sw) ==
    MirrorLoop(img, d, MirrorPoint(d, mirror_line), 1, sw, 0)

mirror_data_90(mirror_line, d, img, sw) ==
    MirrorLoop(img, d, MirrorPoint(d, mirror_line), 0, sw, 0)

\* the grids the tool is run on: every voxel holds a value of its own
MirrorShapes ==
    {<<a, s, c>> : a \in 1 .. MirrorLen, s \in 1 .. MirrorLen, c \in 1 .. 2}
Labelled(d) == [q \in Pos(d) |-> 100 * q[1] + 10 * q[2] + q[3] + 1]
MirrorLines == -MirrorLen .. MirrorLen
MirrorSwitches ==
    [mirror_line : MirrorLines, move_size : MirrorLines,
     move_image_on : BOOLEAN, make_left_mirror : BOOLEAN,
     make_right_mirror : BOOLEAN, check_orient : BOOLEAN,
     flip_vertical : BOOLEAN]

InitMirror ==
    /\ pc = "move_call"
    /\ dims \in MirrorShapes
    /\ img_data = Labelled(dims)
    /\ flags \in MirrorSwitches
    /\ img_zoom = <<10, 10, 10>>
    /\ wm_min = cfg_wm_min /\ wm_max = cfg_wm_max
    /\ gm_min = cfg_gm_min /\ gm_max = cfg_gm_max
    /\ rind_cutoff = cfg_rind_cutoff
    /\ img_mask = <<>> /\ pre_flip = <<>> /\ img_chg = <<>>
    /\ outer_rind_list = <<>> /\ cursor = 0
    /\ applied = <<>> /\ swaps = 0
    /\ in0 = <<>> /\ mask0 = <<>> /\ img_unit = 1

MirrorFrame ==
    UNCHANGED <<dims, img_zoom, wm_min, wm_max, gm_min, gm_max, rind_cutoff,
                img_mask, pre_flip, img_chg, outer_rind_list, cursor,
                flags, applied, swaps, mask0, img_unit>>

MoveImage ==
    /\ pc = "move_call"
    /\ ~flags.flip_vertical /\ flags.move_image_on
    /\ in0' = img_data
    /\ img_data' = move_image(dims, flags.move_size, img_data)
    /\ pc' = "mirror_call"
    /\ MirrorFrame

MoveImage90 ==
    /\ pc = "move_call"
    /\ flags.flip_vertical /\ flags.move_image_on
    /\ in0' = img_data
    /\ img_data' = move_image_90(dims, flags.move_size, img_data)
    /\ pc' = "mirror_call"
    /\ MirrorFrame

MoveOff ==
    /\ pc = "move_call"
    /\ ~flags.move_image_on
    /\ in0' = img_data
    /\ pc' = "mirror_call"
    /\ UNCHANGED img_data
    /\ MirrorFrame

MirrorData ==
    /\ pc = "mirror_call"
    /\ ~flags.flip_vertical
    /\ in0' = img_data
    /\ img_data' = mirror_data(flags.mirror_line, dims, img_data, flags)
    /\ pc' = "mirror_done"
    /\ MirrorFrame

MirrorData90 ==
    /\ pc = "mirror_call"
    /\ flags.flip_vertical
    /\ in0' = img_data
    /\ img_data' = mirror_data_90(flags.mirror_line, dims, img_data, flags)
    /\ pc' = "mirror_done"
    /\ MirrorFrame

NextMirror == MoveImage \/ MoveImage90 \/ MoveOff \/ MirrorData \/ MirrorData90

SpecMirror == InitMirror /\ [][NextMirror]_vars

\* the axis the operations of this run work along
MirrorAxis == IF flags.flip_vertical THEN 0 ELSE 1

\* the cell a move reads for q, and the cell a mirror reads for q
MoveSource(q) == AlongAxis(q, MirrorAxis, q[MirrorAxis + 1] - flags.move_size)
MirrorSource(q) ==
    AlongAxis(q, MirrorAxis,
              2 * MirrorPoint(dims, flags.mirror_line) - q[MirrorAxis + 1])

\* q is a voxel the mirror assigns from another voxel
MirrorAssigns(q) ==
    LET i == q[MirrorAxis + 1]
        mp == MirrorPoint(dims, flags.mirror_line)
    IN  /\ \/ flags.make_left_mirror /\ i < mp
           \/ ~(flags.make_left_mirror /\ i < mp)
                /\ flags.make_right_mirror /\ i > mp
        /\ LookupOk(dims, MirrorSource(q))

\* C24: every value an operation assigns is the value the cell it reads
\* held when the operation started.
C24_WritesStartValues ==
    /\ (pc = "mirror_call" /\ flags.move_image_on) =>
          \A q \in Pos(dims) :
              LookupOk(dims, MoveSource(q)) =>
                  img_data[q] = Lookup(in0, dims, MoveSource(q))
    /\ pc = "mirror_done" =>
          \A q \in Pos(dims) :
              MirrorAssigns(q) => img_data[q] = Lookup(in0, dims, MirrorSource(q))

\* the part of C24 about move_image and move_image_90 alone
C24_MoveWritesStartValues ==
    (pc = "mirror_call" /\ flags.move_image_on) =>
        \A q \in Pos(dims) :
            LookupOk(dims, MoveSource(q)) =>
                img_data[q] = Lookup(in0, dims, MoveSource(q))

\* the length of the axis being mirrored, and the mirror point taken from it
MirroredLength == dims[MirrorAxis + 1]
PointOfMirroredAxis == PyFloorDiv(MirroredLength, 2) + flags.mirror_line

\* exactly one of the two mirrors is switched on, and no blanking
OneMirror ==
    /\ flags.make_left_mirror # flags.make_right_mirror
    /\ ~flags.check_orient

OnMirroredSide(i) ==
    IF flags.make_left_mirror THEN i < PointOfMirroredAxis
    ELSE i > PointOfMirroredAxis

\* C25: after a mirror, a cell on the mirrored side whose reflection about
\* (length of the mirrored axis) / 2 + mirror_line lies inside the grid holds
\* the value its reflection had before, and every other cell is unchanged.
C25_ReflectsAboutMirrorPoint ==
    (pc = "mirror_done" /\ OneMirror) =>
        \A q \in Pos(dims) :
            LET i == q[MirrorAxis + 1]
                r == 2 * PointOfMirroredAxis - i
            IN  IF OnMirroredSide(i) /\ r \in 0 .. MirroredLength - 1
                THEN img_data[q] = in0[AlongAxis(q, MirrorAxis, r)]
                ELSE img_data[q] = in0[q]

\* the cells other than q that the sums of pixel_cleanup read for q
BlurOthers(q) ==
    {<<PyIndex(i[1], dims[1]), PyIndex(i[2], dims[2]), PyIndex(i[3], dims[3])>> :
        i \in {j \in Box(q, blur_dist(img_zoom)) : LookupOk(dims, j)}} \ {q}

\* q is above background and the other cells of its neighbourhood all hold
\* one value, which is not the value of q
IsolatedVoxel(q) ==
    /\ img_data[q] > background
    /\ BlurOthers(q) # {}
    /\ \E w \in {img_data[i] : i \in BlurOthers(q)} :
          /\ w # img_data[q]
          /\ \A i \in BlurOthers(q) : img_data[i] = w

\* C26: the first blur step of the Binarizer returns without raising, and
\* every isolated voxel has another value after it.
C26_BlurChangesIsolated ==
    [][(pc = "binarize_if" /\ flags.convert_to_mask) =>
          /\ pc' = "cleanup_loop"
          /\ \A q \in Pos(dims) : IsolatedVoxel(q) => img_data'[q] # img_data[q]]_vars

(***************************************************************************)
(* The inverter on values of any size, followed by the swap and the mask   *)
(* build (lines 716-735 with intensity_correct and remove_wm_rind on).     *)
(* in0 is the grid before smart_voxel_flip.                                *)
(***************************************************************************)
ClipShape == <<1, 1, 4>>

\* values below, inside, at the ends of and far above the bands
ClipVals(b) == {-5, background, b[1], b[3], b[4] - 1, mask_set, 2 * mask_set}

InitClip ==
    /\ pc = "clip_flip"
    /\ dims = ClipShape
    /\ img_zoom = <<20, 20, 20>>
    /\ \E b \in BandSets :
          /\ wm_min = b[1] /\ wm_max = b[2]
          /\ gm_min = b[3] /\ gm_max = b[4]
          /\ img_data \in [Pos(dims) -> ClipVals(b)]
    /\ rind_cutoff = cfg_rind_cutoff
    /\ Idle

ClipFrame ==
    UNCHANGED <<driverVars, dims, img_zoom, rind_cutoff, pre_flip, img_chg,
                outer_rind_list, cursor, mask0>>

ClipFlip ==
    /\ pc = "clip_flip"
    /\ in0' = img_data
    /\ img_data' = smart_voxel_flip(img_data, wm_min, wm_max, gm_min, gm_max)
    /\ pc' = "clip_swap"
    /\ BandFrame
    /\ UNCHANGED img_mask
    /\ ClipFrame

ClipSwap ==
    /\ pc = "clip_swap"
    /\ wm_min' = SwapBands[1] /\ wm_max' = SwapBands[2]
    /\ gm_min' = SwapBands[3] /\ gm_max' = SwapBands[4]
    /\ pc' = "clip_build"
    /\ UNCHANGED <<img_data, img_mask, in0>>
    /\ ClipFrame

ClipBuild ==
    /\ pc = "clip_build"
    /\ img_mask' = BuildMask(img_data, dims, img_zoom)
    /\ pc' = "clip_built"
    /\ BandFrame
    /\ UNCHANGED <<img_data, in0>>
    /\ ClipFrame

NextClip == ClipFlip \/ ClipSwap \/ ClipBuild

SpecClip == InitClip /\ [][NextClip]_vars

\* the lowest and the highest band bound, before and after the swap alike
LowestBound == IF wm_min <= gm_min THEN wm_min ELSE gm_min
HighestBound == IF gm_max >= wm_max THEN gm_max ELSE wm_max

\* the coronal pass marks q: both ends of its row are found and q lies
\* strictly between them
CorMarks(q) ==
    LET rs == row_search(CorRow(img_data, dims, q[1], q[2]), img_zoom[3])
    IN  Found(rs) /\ Between(q[3], rs)

\* C27: after smart_voxel_flip every voxel is background or lies between
\* the lowest and the highest band bound, so none is mask_set, and a mask
\* cell is mask_set only where the coronal pass marked it.
C27_InvertedWithinBands ==
    /\ pc \in {"clip_swap", "clip_build", "clip_built"} =>
          \A q \in Pos(dims) :
              /\ \/ img_data[q] = background
                 \/ LowestBound <= img_data[q] /\ img_data[q] <= HighestBound
              /\ img_data[q] # mask_set
    /\ pc = "clip_built" =>
          \A q \in Pos(dims) : img_mask[q] = mask_set => CorMarks(q)

C27_Witness ==
    /\ pc = "clip_built"
    /\ \E q \in Pos(dims) : in0[q] = mask_set
    /\ \E q \in Pos(dims) : in0[q] < background
    /\ \E q \in Pos(dims) : img_mask[q] = mask_set
    /\ \E q \in Pos(dims) : img_data[q] = HighestBound

(***************************************************************************)
(* clean_bg on grids with several voxels a pass can reset: the two loops   *)
(* of SpecClean, started on a longer grid that holds up to three voxels    *)
(* above background, each below or above wm_min.                           *)
(***************************************************************************)
SweepShape == <<2, MaxSag + 2, 2>>
SweepDists == {0, 1}
SweepReqs == {1, inclusion_req}

SweepGrid(d, T, L) ==
    [q \in Pos(d) |-> IF q \in T THEN 2000
                      ELSE IF q \in L THEN 300 ELSE background]

InitSweep ==
    /\ pc = "clean_call"
    /\ dims = SweepShape
    /\ img_zoom = <<20, 20, 20>>
    /\ PreSwapBounds
    /\ rind_cutoff = cfg_rind_cutoff
    /\ \E X \in {Y \in SUBSET Pos(dims) : Cardinality(Y) <= inclusion_req} :
       \E T \in SUBSET X :
          img_data = SweepGrid(dims, T, X \ T)
    /\ \E sd \in SweepDists : \E req \in SweepReqs :
          flags = [search_dist |-> sd, inclusion_req |-> req]
    /\ img_mask = <<>> /\ pre_flip = <<>> /\ img_chg = <<>>
    /\ outer_rind_list = <<>> /\ cursor = 0
    /\ applied = <<>> /\ swaps = 0
    /\ in0 = <<>> /\ mask0 = <<>> /\ img_unit = 1

SpecSweep == InitSweep /\ [][NextClean]_vars

\* the first loop deciding every voxel from the grid img as it stands
Pass1Snapshot(img) ==
    [q \in Pos(dims) |->
        IF /\ wm_min > img[q]
           /\ img[q] > background
           /\ isolation_check(img, dims, q, wm_min, flags.search_dist,
                              flags.inclusion_req) < flags.inclusion_req
        THEN background ELSE img[q]]

\* the second loop deciding every voxel from the grid img as it stands
Pass2Snapshot(img) ==
    [q \in Pos(dims) |->
        IF img[q] > background /\ iso_px_check(img, dims, q) >= 26
        THEN background ELSE img[q]]

\* C28: each loop of clean_bg leaves the grid that deciding every voxel from
\* the grid at the start of the loop would leave.
C28_PassesEqualSnapshot ==
    /\ pc = "clean_pass2" => img_data = Pass1Snapshot(in0)
    /\ pc = "clean_done" => img_data = Pass2Snapshot(mask0)

ResetBy(before, after) == {q \in Pos(dims) : before[q] # after[q]}

\* the first loop reset a voxel, and the second loop reset two: it decided
\* the second of them after it had reset the first
C28_Witness ==
    /\ pc = "clean_done"
    /\ ResetBy(in0, mask0) # {}
    /\ Cardinality(ResetBy(mask0, img_data)) >= 2

\* the positions of the driver after lines 725-726
AfterSwap ==
    {"mask_copy", "mask_cor", "mask_ax", "mask_sag", "rind_call", "rind_scan",
     "rind_cosmetic", "rind_done", "bright_if", "binarize_if", "cleanup_loop",
     "save"}

\* C29: in a run with intensity_correct off the inverter is not called, the
\* bounds are swapped all the same, and the mask builder, the rind remover
\* and the Binarizer are called with the swapped bounds.
C29_SwapWithoutInverter ==
    ~flags.intensity_correct =>
        /\ \A i \in 1 .. Len(applied) : applied[i].stage # "smart_voxel_flip"
        /\ pc \in AfterSwap =>
              swaps = 1 /\ <<wm_min, wm_max, gm_min, gm_max>> = SwappedBands
        /\ \A i \in 1 .. Len(applied) :
              applied[i].stage \in {"brain_mask", "remove_rind", "pixel_cleanup",
                                    "force_mask"}
                  => applied[i].bands = SwappedBands

C29_Witness ==
    /\ pc = "save"
    /\ ~flags.intensity_correct
    /\ <<wm_min, wm_max, gm_min, gm_max>> = SwappedBands
    /\ \E i, j, k \in 1 .. Len(applied) :
          /\ applied[i].stage = "brain_mask" /\ applied[i].bands = SwappedBands
          /\ applied[j].stage = "remove_rind" /\ applied[j].bands = SwappedBands
          /\ applied[k].stage = "force_mask" /\ applied[k].bands = SwappedBands

(***************************************************************************)
(* NiftiPyPy.py: remove_rind with the widening while loop (lines 410-454). *)
(* cursor is a record: k, the number of the voxel the scan is at, and the  *)
(* locals voxel_val, voxel_add and gm_max_temp of the loop; gm_max_temp is *)
(* held in tenths.  The bounds are the ones the driver passes, after its   *)
(* swap.  gm_max_temp is widened only until it is above every voxel of the *)
(* grid: from there on every test voxel_iter < gm_max_temp is true and a   *)
(* further widening changes nothing the loop reads.                        *)
(***************************************************************************)
pypy_rind_cutoff == 4

\* the shipped bounds of NiftiPyPy.py after the swap, and the bounds a
\* configuration with the white band above the gray band leaves
PyPySwapped == <<1700, 3000, 300, 1700>>
PyPyMisordered == <<300, 1700, 1700, 3000>>

WidenShape == <<1, 1, 3>>
WidenVals == {background, 200, 1000, 1600, 2000, 2900, 3500}

\* the voxels one pass of the for loops adds up for the candidate p
WidenHits(img, mask, d, p, temp) ==
    {i \in Box(p, r_blur) :
        /\ LookupOk(d, i)
        /\ \/ mask[p] = mask_set /\ Lookup(img, d, i) > gm_min
           \/ Lookup(img, d, i) > gm_min /\ 10 * Lookup(img, d, i) < temp}

WidenSum(img, d, hits) == SumFn([i \in hits |-> Lookup(img, d, i)])

\* gm_max_temp = gm_max_temp + (wm_max - wm_min) * .10
Widened(img, temp) ==
    IF \A q \in DOMAIN img : 10 * img[q] < temp THEN temp
    ELSE temp + (wm_max - wm_min)

\* voxel > wm_min and boundary_load >= rind_cutoff
WidenCandidate(img, d, p) ==
    img[p] > wm_min /\ bound_check(img, d, p, r_dist) >= pypy_rind_cutoff

AtScan(k) == [k |-> k, voxel_val |-> 0, voxel_add |-> 0, gm_max_temp |-> 0]

InitWiden ==
    /\ pc = "widen_call"
    /\ dims = WidenShape
    /\ img_zoom = <<20, 20, 20>>
    /\ \E b \in {PyPySwapped, PyPyMisordered} :
          /\ wm_min = b[1] /\ wm_max = b[2]
          /\ gm_min = b[3] /\ gm_max = b[4]
    /\ img_data \in [Pos(dims) -> WidenVals]
    /\ img_mask \in {img_data, [q \in Pos(dims) |-> mask_set]}
    /\ rind_cutoff = pypy_rind_cutoff
    /\ pre_flip = <<>> /\ img_chg = <<>>
    /\ outer_rind_list = <<>> /\ cursor = 0
    /\ flags = <<>> /\ applied = <<>> /\ swaps = 0
    /\ in0 = <<>> /\ mask0 = <<>> /\ img_unit = 1

WidenFrame ==
    UNCHANGED <<driverVars, dims, img_zoom, wm_min, wm_max, gm_min, gm_max,
                rind_cutoff, img_data, img_mask, pre_flip, outer_rind_list,
                in0, mask0>>

\* img_chg = make_copy(img_data)
WidenCall ==
    /\ pc = "widen_call"
    /\ img_chg' = make_copy(img_data)
    /\ cursor' = AtScan(0)
    /\ pc' = "widen_scan"
    /\ WidenFrame

\* a voxel that is not a rind candidate
WidenSkip ==
    /\ pc = "widen_scan"
    /\ cursor.k < NumPos(dims)
    /\ ~WidenCandidate(img_data, dims, PosAt(dims, cursor.k))
    /\ cursor' = AtScan(cursor.k + 1)
    /\ UNCHANGED <<pc, img_chg>>
    /\ WidenFrame

\* a rind candidate: voxel_val, voxel_add = 0, 0 ; gm_max_temp = gm_max
WidenEnter ==
    /\ pc = "widen_scan"
    /\ cursor.k < NumPos(dims)
    /\ WidenCandidate(img_data, dims, PosAt(dims, cursor.k))
    /\ cursor' = [cursor EXCEPT !.gm_max_temp = 10 * gm_max]
    /\ pc' = "widen_loop"
    /\ UNCHANGED img_chg
    /\ WidenFrame

\* one pass of the body of `while not voxel_add`
WidenPass ==
    /\ pc = "widen_loop"
    /\ cursor.voxel_add = 0
    /\ LET hits == WidenHits(img_data, img_mask, dims, PosAt(dims, cursor.k),
                             cursor.gm_max_temp)
       IN  cursor' = [cursor EXCEPT
                        !.voxel_val = @ + WidenSum(img_data, dims, hits),
                        !.voxel_add = @ + Cardinality(hits),
                        !.gm_max_temp = Widened(img_data, @)]
    /\ UNCHANGED <<pc, img_chg>>
    /\ WidenFrame

\* img_chg[ax][sag][cor] = int(float(voxel_val) / float(voxel_add))
WidenAssign ==
    /\ pc = "widen_loop"
    /\ cursor.voxel_add # 0
    /\ img_chg' = [img_chg EXCEPT ![PosAt(dims, cursor.k)] =
                      Trunc(cursor.voxel_val, cursor.voxel_add)]
    /\ cursor' = AtScan(cursor.k + 1)
    /\ pc' = "widen_scan"
    /\ WidenFrame

WidenReturn ==
    /\ pc = "widen_scan"
    /\ cursor.k = NumPos(dims)
    /\ pc' = "widen_done"
    /\ UNCHANGED <<cursor, img_chg>>
    /\ WidenFrame

NextWiden ==
    \/ WidenCall \/ WidenSkip \/ WidenEnter \/ WidenPass \/ WidenAssign
    \/ WidenReturn

\* the interpreter keeps running the loop
SpecWiden == InitWiden /\ [][NextWiden]_vars /\ WF_vars(NextWiden)

\* C30: whenever wm_max > wm_min after the swap, the while loop entered for
\* a rind candidate is left after finitely many widenings, and it is left
\* with voxel_add above zero.
C30_WideningTerminates ==
    /\ [](( pc = "widen_loop" /\ wm_max > wm_min) => <>(pc = "widen_scan"))
    /\ [][(pc = "widen_loop" /\ pc' = "widen_scan") => cursor.voxel_add > 0]_vars

====
